---- MODULE Spec2Model ----
(***************************************************************************)
(* Model of the stack unwinder of pkg/proc/stack.go (stackIterator, the    *)
(* arm64 architecture adapter, the inline expander and the defer           *)
(* correlator).                                                            *)
(*                                                                         *)
(* The target process is the environment.  Its stack memory is decided     *)
(* lazily: a cell gets its value the first time the unwinder may read it   *)
(* and keeps the value for the rest of the trace (variable mem).  Its      *)
(* binary (functions, line table, frame descriptor entries, inline trees)  *)
(* is a fixed table, written below.                                        *)
(***************************************************************************)
EXTENDS Integers, Sequences, FiniteSets, TLC

\* ------------------------------------------------------------------ bounds

\* stacktrace is called with depth in -1..MaxDepth
MaxDepth == 2
\* number of mapped 8-byte cells of each of the two stacks of the target
StackCells == 6

\* the walk of rangeFuncStackTrace is followed until its callback was called
\* with MaxWalk frames
MaxWalk == 6

\* --------------------------------------------------------- program constants

PtrSize == 8
usesLR == TRUE
linux == TRUE
arm64cgocallSPOffsetSaveSlot == 8
prevG0schedSPOffsetSaveSlot == 16
maxRangeFuncDefers == 10

\* ----------------------------------------------------------------- encoding

\* an absent register (op.DwarfRegisters.Reg returns nil)
NoReg == -1
\* the result of a failed ReadMemory
Fault == -2
\* error values (nil is the empty string)
NoErr == ""
ErrNull == "NULL address"
ErrCFA == "CFA becomes undefined"
ErrRet == "Undefined return address"
ErrArch == "architectural frame rules are unsupported"
ErrMem == "memory read failed"
ErrNilG == "nil goroutine when attempting to switch to goroutine stack"
ErrLRNil == "LR register is nil during stack switch"
ErrDepth == "negative maximum stack depth"

\* ------------------------------------------------------ the target's binary

\* every function of the modelled binary spans FnSize bytes from its entry
FnSize == 16

MkFn(name, entry, cu) ==
  [Name |-> name, Entry |-> entry, End |-> entry + FnSize, offset |-> entry, cu |-> cu]

\* a nil *Function
NoFn == [Name |-> "", Entry |-> 0, End |-> 0, offset |-> 0, cu |-> ""]

Functions ==
  { MkFn("main.main", 1000, "main"),
    MkFn("main.f", 1016, "main"),
    MkFn("main.k", 1032, "main"),
    MkFn("runtime.sigpanic", 1100, "runtime"),
    MkFn("runtime.sigtrampgo", 1116, "runtime"),
    MkFn("runtime.goexit", 1132, "runtime"),
    MkFn("runtime.rt0_go", 1148, "runtime"),
    MkFn("runtime.mcall", 1164, "runtime"),
    MkFn("runtime.mstart", 1180, "runtime"),
    MkFn("runtime.systemstack_switch", 1196, "runtime"),
    MkFn("runtime.systemstack", 1212, "runtime"),
    MkFn("runtime.newstack", 1228, "runtime"),
    MkFn("runtime.asmcgocall", 1244, "runtime"),
    MkFn("runtime.cgocallback", 1260, "runtime"),
    MkFn("runtime.cgocallback_gofunc", 1276, "runtime"),
    MkFn("crosscall2", 1292, "cgo"),
    MkFn("runtime.sigreturn", 1308, "runtime"),
    MkFn("C.puts", 1324, "libc"),
    MkFn("ntdll.wait", 1340, "ntdll"),
    MkFn("ntdll.arch", 1356, "ntdll"),
    MkFn("main.f-range1", 1372, "main"),
    MkFn("main.f-range2", 1388, "main") }

\* compile units without a line table (cu.lineInfo == nil)
NoLineInfoCUs == {"libc"}

\* BinaryInfo.PCToFunc
PCToFunc(pc) ==
  IF \E f \in Functions : f.Entry <= pc /\ pc < f.End
    THEN CHOOSE f \in Functions : f.Entry <= pc /\ pc < f.End
    ELSE NoFn

\* DebugLineInfo.PCToLine(basePC, pc): the line table maps every pc of a
\* function to its own line, so that the lines of pc and pc-1 differ
LineInfoPCToLine(fn, pc) ==
  IF fn.cu \in NoLineInfoCUs
    THEN [File |-> "", Line |-> 0]
    ELSE [File |-> fn.cu, Line |-> pc - 900]

\* BinaryInfo.PCToLine
PCToLine(pc) ==
  LET fn == PCToFunc(pc) IN
  IF fn = NoFn
    THEN [File |-> "", Line |-> 0, Fn |-> NoFn]
    ELSE [File |-> LineInfoPCToLine(fn, pc).File,
          Line |-> LineInfoPCToLine(fn, pc).Line, Fn |-> fn]

\* One DW_TAG_inlined_subroutine entry of a function's DWARF tree
\* (name, call file and call line; ok* is false for a missing attribute)
InlEntry(name, okname, fileidx, okfileidx, line, okline, offset) ==
  [Name |-> name, okname |-> okname, CallFile |-> fileidx, okfileidx |-> okfileidx,
   CallLine |-> line, okline |-> okline, Offset |-> offset]

\* compileUnit.filePath(fileidx, entry): "" stands for an error
filePath(fileidx) ==
  CASE fileidx = 1 -> "f.go"
    [] fileidx = 2 -> "g.go"
    [] fileidx = 3 -> "k.go"
    [] OTHER -> ""

\* reader.InlineStack(dwarfTree, callpc): the inlined calls covering callpc,
\* innermost first.
\*   main.f:  [1020,1028) is main.g inlined into main.f,
\*            [1022,1026) is main.h inlined into main.g
\*   main.k:  [1036,1044) is an inlined call whose entry has no call line
InlineStack(fn, callpc) ==
  IF fn.Name = "main.f" THEN
       (IF callpc >= 1022 /\ callpc < 1026
          THEN << InlEntry("main.h", TRUE, 2, TRUE, 7, TRUE, 2002),
                  InlEntry("main.g", TRUE, 1, TRUE, 3, TRUE, 2001) >>
        ELSE IF callpc >= 1020 /\ callpc < 1028
          THEN << InlEntry("main.g", TRUE, 1, TRUE, 3, TRUE, 2001) >>
        ELSE << >>)
  ELSE IF fn.Name = "main.k" THEN
       (IF callpc >= 1036 /\ callpc < 1044
          THEN << InlEntry("main.q", TRUE, 3, TRUE, 0, FALSE, 2003) >>
        ELSE << >>)
  ELSE << >>

\* image.getDwarfTree fails for functions without DWARF
HasDwarfTree(fn) == fn.cu \in {"main", "runtime"}

\* ------------------------------------------------------------- DWARF rules

Rule(kind, reg, off) == [Rule |-> kind, Reg |-> reg, Offset |-> off]

RegNames == {"PC", "SP", "BP", "LR"}

\* an empty map[uint64]frame.DWRule
NoRules == [r \in {} |-> Rule("Undefined", "", 0)]

\* m[k] = v on a Go map
MapSet(f, k, v) == [x \in DOMAIN f \cup {k} |-> IF x = k THEN v ELSE f[x]]

\* m[k] of a Go map: the zero DWRule (RuleUndefined) for a missing key
MapGet(f, k) == IF k \in DOMAIN f THEN f[k] ELSE Rule("Undefined", "", 0)

\* what FDEForPC gives when no FDE covers pc (ErrNoFDEForPC)
NoFDE == [CFA |-> Rule("Undefined", "", 0), Regs |-> NoRules, RetAddrReg |-> ""]

\* frame.FrameContext of the FDE covering pc, NoFDE when no FDE covers pc
\* (frameEntries.FDEForPC and fde.EstablishFrame):
\*   Go functions: CFA = SP + 16, the return address (LR) is saved at CFA - 8
\*   ntdll.wait:   the CFA rule is undefined
\*   ntdll.arch:   the rule of the return address register is architectural
\*   C.puts:       a leaf, no rule for any register
\*   everything else has no FDE
FDEForPC(pc) ==
  LET fn == PCToFunc(pc) IN
  IF fn = NoFn THEN NoFDE
  ELSE IF fn.Name = "ntdll.wait" THEN
    [CFA |-> Rule("Undefined", "", 0), Regs |-> NoRules, RetAddrReg |-> "LR"]
  ELSE IF fn.Name = "ntdll.arch" THEN
    [CFA |-> Rule("CFA", "SP", 16),
     Regs |-> [r \in {"LR"} |-> Rule("Architectural", "", 0)], RetAddrReg |-> "LR"]
  ELSE IF fn.Name = "C.puts" THEN
    [CFA |-> Rule("CFA", "SP", 16), Regs |-> NoRules, RetAddrReg |-> "LR"]
  ELSE
    [CFA |-> Rule("CFA", "SP", 16),
     Regs |-> [r \in {"LR"} |-> Rule("Offset", "", -8)], RetAddrReg |-> "LR"]

\* ------------------------------------------------------------ target memory

\* The goroutine stack is [GStackLo, GStackHi), the system stack starts at
\* SysStackLo; both have StackCells mapped cells.  The three words crosscall2
\* saved (x29, x30 and the stack pointer, at 8*22, 8*23 and 8*24 from its SP)
\* are mapped for a crosscall2 frame at the base of the system stack.  A read
\* of any other address fails.
GStackLo == 8
GStackHi == GStackLo + 8 * StackCells
SysStackLo == 128
SysStackHi == SysStackLo + 8 * StackCells

CgoSaveArea == { SysStackLo + 8 * k : k \in 22..24 }

Mapped ==
  { GStackLo + 8 * k : k \in 0..(StackCells - 1) } \cup
  { SysStackLo + 8 * k : k \in 0..(StackCells - 1) } \cup
  CgoSaveArea

\* MemoryReadWriter.ReadMemory of one pointer-sized word
MRead(m, addr) == IF addr \in Mapped THEN m[addr] ELSE Fault

\* readUintRaw / readIntRaw with the error dropped (v, _ := ...): 0 on failure
ReadRaw(m, addr) == IF MRead(m, addr) = Fault THEN 0 ELSE MRead(m, addr)

\* ---------------------------------------------------------------- registers

\* op.DwarfRegisters{}: no register, CFA 0
EmptyRegs == [PC |-> NoReg, SP |-> NoReg, BP |-> NoReg, LR |-> NoReg, CFA |-> 0]

\* DwarfRegisters.Reg(regnum); registers other than PC, SP, BP, LR are absent
RegVal(regs, r) == IF r \in RegNames THEN regs[r] ELSE NoReg

Res(reg, err) == [reg |-> reg, err |-> err]

\* stackIterator.readRegisterAt
readRegisterAt(m, addr) ==
  IF MRead(m, addr) = Fault THEN Res(NoReg, ErrMem) ELSE Res(MRead(m, addr), NoErr)

\* op.ExecuteStackProgram on the expression of a rule: the expression is
\* DW_OP_breg<Reg> Offset, and fails when the register is absent
ExecuteStackProgram(regs, rule) ==
  IF RegVal(regs, rule.Reg) = NoReg THEN Res(NoReg, "expression failed")
  ELSE Res(RegVal(regs, rule.Reg) + rule.Offset, NoErr)

\* stackIterator.executeFrameRegRule
executeFrameRegRule(regs, m, regnum, rule, cfa) ==
  CASE rule.Rule = "SameVal" -> Res(RegVal(regs, regnum), NoErr)
    [] rule.Rule = "Offset" -> readRegisterAt(m, cfa + rule.Offset)
    [] rule.Rule = "ValOffset" -> Res(cfa + rule.Offset, NoErr)
    [] rule.Rule = "Register" -> Res(RegVal(regs, rule.Reg), NoErr)
    [] rule.Rule = "Expression" ->
         (IF ExecuteStackProgram(regs, rule).err # NoErr
            THEN Res(NoReg, ExecuteStackProgram(regs, rule).err)
            ELSE readRegisterAt(m, ExecuteStackProgram(regs, rule).reg))
    [] rule.Rule = "ValExpression" -> ExecuteStackProgram(regs, rule)
    [] rule.Rule = "Architectural" -> Res(NoReg, ErrArch)
    [] rule.Rule = "CFA" ->
         (IF RegVal(regs, rule.Reg) = NoReg THEN Res(NoReg, NoErr)
          ELSE Res(RegVal(regs, rule.Reg) + rule.Offset, NoErr))
    [] rule.Rule = "FramePointer" ->
         (IF RegVal(regs, rule.Reg) = NoReg THEN Res(NoReg, NoErr)
          ELSE IF RegVal(regs, rule.Reg) <= cfa
            THEN readRegisterAt(m, RegVal(regs, rule.Reg))
          ELSE Res(RegVal(regs, rule.Reg), NoErr))
    [] OTHER -> Res(NoReg, NoErr)

\* ------------------------------------------------------- architecture (arm64)

crosscall2SPOffsetBad == 8
crosscall2SPOffset == 88

InFn(pc, name) == PCToFunc(pc) # NoFn /\ PCToFunc(pc).Name = name

\* the frame-pointer based context with the CFA one word lower
FramePointerContextLowCFA ==
  [CFA |-> Rule("CFA", "BP", PtrSize),
   Regs |-> [r \in {"PC", "BP", "SP"} |->
               CASE r = "PC" -> Rule("Offset", "", -PtrSize)
                 [] r = "BP" -> Rule("Offset", "", -2 * PtrSize)
                 [] r = "SP" -> Rule("ValOffset", "", 0)],
   RetAddrReg |-> "PC"]

\* The frame-pointer based context arm64FixFrameUnwindContext returns when no
\* FDE covers pc or pc is inside runtime.sigreturn
FramePointerContext ==
  [CFA |-> Rule("CFA", "BP", 2 * PtrSize),
   Regs |-> [r \in {"PC", "BP", "SP"} |->
               CASE r = "PC" -> Rule("Offset", "", -PtrSize)
                 [] r = "BP" -> Rule("Offset", "", -2 * PtrSize)
                 [] r = "SP" -> Rule("ValOffset", "", 0)],
   RetAddrReg |-> "PC"]

\* arm64FixFrameUnwindContext
arm64FixFrameUnwindContext(fctxt, pc) ==
  IF fctxt = NoFDE \/ InFn(pc, "runtime.sigreturn") THEN FramePointerContext
  ELSE
    LET c1 == IF InFn(pc, "crosscall2") /\ fctxt.CFA.Offset = crosscall2SPOffsetBad
                THEN [fctxt EXCEPT !.CFA.Offset = @ + crosscall2SPOffset]
                ELSE fctxt
        r1 == IF MapGet(c1.Regs, "BP").Rule = "Undefined"
                THEN MapSet(c1.Regs, "BP", Rule("FramePointer", "BP", 0))
                ELSE c1.Regs
        r2 == IF MapGet(r1, "LR").Rule = "Undefined"
                THEN MapSet(r1, "LR", Rule("Register", "LR", 0))
                ELSE r1
    IN [c1 EXCEPT !.Regs = r2]

\* the frame context advanceRegs works with at pc
FrameContextAt(pc) == arm64FixFrameUnwindContext(FDEForPC(pc), pc)

\* -------------------------------------------------------------- data types

\* Location{}
ZeroLoc == [PC |-> 0, File |-> "", Line |-> 0, Fn |-> NoFn]

\* A Defer as readDefers sees it: the address of the _defer record it was
\* loaded from, its SP, its Unreadable error ("" for nil) and its rangefunc
\* list.  The record with addr 0 stands for a nil *Defer.
MkDefer(addr, sp, unreadable, link, rangefunc) ==
  [addr |-> addr, SP |-> sp, Unreadable |-> unreadable, link |-> link,
   rangefunc |-> rangefunc]

NoDefer == MkDefer(0, 0, "", 0, << >>)

\* Stackframe{}
ZeroFrame ==
  [Current |-> ZeroLoc, Call |-> ZeroLoc, Regs |-> EmptyRegs, stackHi |-> 0,
   Ret |-> 0, Err |-> NoErr, SystemStack |-> FALSE, Inlined |-> FALSE,
   hasInlines |-> FALSE, Bottom |-> FALSE, lastpc |-> 0, closurePtr |-> 0,
   TopmostDefer |-> NoDefer, Defers |-> << >>]

\* a nil *G
NoG ==
  [ID |-> -1, PC |-> 0, SP |-> 0, BP |-> 0, LR |-> 0, stacklo |-> 0, stackhi |-> 0,
   SystemStack |-> FALSE, Thread |-> FALSE, g0sp |-> 0]

\* StacktraceOptions, one flag per bit
MkOpts(readDefers, simple, useG) ==
  [StacktraceReadDefers |-> readDefers, StacktraceSimple |-> simple, StacktraceG |-> useG]

\* newStackIterator
newStackIterator(hasTarget, regs, stackhi, g, opts) ==
  [pc |-> regs.PC, regs |-> regs, top |-> TRUE, target |-> hasTarget, err |-> NoErr,
   atend |-> FALSE, sigret |-> FALSE, frame |-> ZeroFrame, stackhi |-> stackhi,
   systemstack |-> IF g # NoG THEN g.SystemStack ELSE TRUE,
   g |-> g, g0_sched_sp |-> 0, g0_sched_sp_loaded |-> FALSE, count |-> 0, opts |-> opts]

\* ------------------------------------------------------------ frame advancer

\* advanceRegs that drops the error of the rule of the return address
\* register as it drops the errors of the other rules
advanceRegsRetDropErr(it, m, framectx, regs1, callFrameRegs, hasRA, rares) ==
  LET cfa == regs1.CFA
      raNil == hasRA /\ rares.reg = NoReg
      sigp == /\ hasRA /\ ~raNil /\ usesLR
              /\ it.frame.Call.Fn # NoFn
              /\ it.frame.Call.Fn.Name = "runtime.sigpanic"
      err1 == it.err
      err2 == IF sigp /\ MRead(m, cfa) = Fault THEN ErrMem ELSE err1
      ret0 == IF ~hasRA \/ raNil THEN 0
              ELSE IF sigp THEN ReadRaw(m, cfa)
              ELSE rares.reg
      ret == IF usesLR /\ ret0 = 0 /\ regs1.LR # NoReg THEN regs1.LR ELSE ret0
      retaddr == IF hasRA THEN cfa + framectx.Regs[framectx.RetAddrReg].Offset ELSE 0
  IN [it |-> [it EXCEPT !.regs = regs1, !.err = err2],
      callFrameRegs |-> callFrameRegs, ret |-> ret, retaddr |-> retaddr]

\* advanceRegsRet without the return address read at the CFA after
\* runtime.sigpanic
advanceRegsRetNoSigpanic(it, m, framectx, regs1, callFrameRegs, hasRA, rares) ==
  LET cfa == regs1.CFA
      raNil == hasRA /\ rares.reg = NoReg
      err1 == IF raNil
                THEN (IF rares.err = NoErr THEN ErrRet ELSE rares.err)
                ELSE it.err
      ret0 == IF ~hasRA \/ raNil THEN 0 ELSE rares.reg
      ret == IF usesLR /\ ret0 = 0 /\ regs1.LR # NoReg THEN regs1.LR ELSE ret0
      retaddr == IF hasRA THEN cfa + framectx.Regs[framectx.RetAddrReg].Offset ELSE 0
  IN [it |-> [it EXCEPT !.regs = regs1, !.err = err1],
      callFrameRegs |-> callFrameRegs, ret |-> ret, retaddr |-> retaddr]

\* advanceRegs, lines 568-604: the return address, from the value rares of
\* the rule of the return address register (hasRA: framectx.Regs has one)
advanceRegsRet(it, m, framectx, regs1, callFrameRegs, hasRA, rares) ==
  LET cfa == regs1.CFA
      raNil == hasRA /\ rares.reg = NoReg
      sigp == /\ hasRA /\ ~raNil /\ usesLR
              /\ it.frame.Call.Fn # NoFn
              /\ it.frame.Call.Fn.Name = "runtime.sigpanic"
      err1 == IF raNil
                THEN (IF rares.err = NoErr THEN ErrRet ELSE rares.err)
                ELSE it.err
      err2 == IF sigp /\ MRead(m, cfa) = Fault THEN ErrMem ELSE err1
      ret0 == IF ~hasRA \/ raNil THEN 0
              ELSE IF sigp THEN ReadRaw(m, cfa)
              ELSE rares.reg
      ret == IF usesLR /\ ret0 = 0 /\ regs1.LR # NoReg THEN regs1.LR ELSE ret0
      retaddr == IF hasRA THEN cfa + framectx.Regs[framectx.RetAddrReg].Offset ELSE 0
  IN [it |-> [it EXCEPT !.regs = regs1, !.err = err2],
      callFrameRegs |-> callFrameRegs, ret |-> ret, retaddr |-> retaddr]

\* advanceRegsCFA without the implicit rule SP = CFA
advanceRegsCFANoSP(it, m, framectx, cfa) ==
  advanceRegsRet(it, m, framectx, [it.regs EXCEPT !.CFA = cfa],
    [r \in RegNames \cup {"CFA"} |->
       IF r = "CFA" THEN 0
       ELSE IF r \in DOMAIN framectx.Regs
         THEN executeFrameRegRule([it.regs EXCEPT !.CFA = cfa], m, r,
                                  framectx.Regs[r], cfa).reg
       ELSE NoReg],
    framectx.RetAddrReg \in DOMAIN framectx.Regs,
    IF framectx.RetAddrReg \in DOMAIN framectx.Regs
      THEN executeFrameRegRule([it.regs EXCEPT !.CFA = cfa], m, framectx.RetAddrReg,
                               framectx.Regs[framectx.RetAddrReg], cfa)
      ELSE Res(NoReg, NoErr))

\* advanceRegs, lines 535-567: the caller's registers, one per rule of
\* framectx, SP being the CFA unless a rule says otherwise
advanceRegsCFA(it, m, framectx, cfa) ==
  advanceRegsRet(it, m, framectx, [it.regs EXCEPT !.CFA = cfa],
    [r \in RegNames \cup {"CFA"} |->
       IF r = "CFA" THEN 0
       ELSE IF r \in DOMAIN framectx.Regs
         THEN executeFrameRegRule([it.regs EXCEPT !.CFA = cfa], m, r,
                                  framectx.Regs[r], cfa).reg
       ELSE IF r = "SP" THEN cfa
       ELSE NoReg],
    framectx.RetAddrReg \in DOMAIN framectx.Regs,
    IF framectx.RetAddrReg \in DOMAIN framectx.Regs
      THEN executeFrameRegRule([it.regs EXCEPT !.CFA = cfa], m, framectx.RetAddrReg,
                               framectx.Regs[framectx.RetAddrReg], cfa)
      ELSE Res(NoReg, NoErr))

\* advanceRegs, lines 527-531: the CFA rule
advanceRegsCtx(it, m, framectx, cfareg) ==
  IF cfareg.reg = NoReg
    THEN [it |-> [it EXCEPT !.err = ErrCFA],
          callFrameRegs |-> EmptyRegs, ret |-> 0, retaddr |-> 0]
    ELSE advanceRegsCFA(it, m, framectx, cfareg.reg)

\* advanceRegs with the frame context of it.pc
advanceRegsWith(it, m, framectx) ==
  advanceRegsCtx(it, m, framectx,
                 executeFrameRegRule(it.regs, m, "X0", framectx.CFA, 0))

\* stackIterator.advanceRegs: the caller's registers, the return address and
\* the address of the return address slot; it.regs.CFA and it.err are updated
advanceRegs(it, m) == advanceRegsWith(it, m, FrameContextAt(it.pc))

\* functions that have a .closureptr local (range-over-func bodies)
ClosureFns == {"main.f-range1", "main.f-range2"}

\* readLocalPtrVar(dwarfTree, goClosurePtr, ...): 0 when the function has no
\* such variable or it cannot be read
readLocalPtrVar(fn, regs, m) ==
  IF fn.Name \in ClosureFns THEN ReadRaw(m, regs.CFA - 2 * PtrSize) ELSE 0

\* CallLocation with the PC moved to the CALL instruction as well
\* (the variant the claim on Call.PC is checked against)
CallLocationAtCall(cur, fn, pc, atCall) ==
  IF atCall
    THEN [cur EXCEPT !.PC = pc - 1,
                     !.File = LineInfoPCToLine(fn, pc - 1).File,
                     !.Line = LineInfoPCToLine(fn, pc - 1).Line]
    ELSE cur

\* newStackframe, lines 356-371: r.Call, from r.Current; atCall is the
\* condition under which the line is taken at pc - 1
CallLocation(cur, fn, pc, atCall) ==
  IF atCall
    THEN [cur EXCEPT !.File = LineInfoPCToLine(fn, pc - 1).File,
                     !.Line = LineInfoPCToLine(fn, pc - 1).Line]
    ELSE cur

\* newStackframe, lines 345-385: the frame at it.pc, loc being what PCToLine
\* gives for it.pc
newStackframeAt(it, ret, m, loc) ==
  LET fn == loc.Fn
      cur == [PC |-> it.pc,
              File |-> IF fn = NoFn THEN "?" ELSE loc.File,
              Line |-> IF fn = NoFn THEN -1 ELSE loc.Line,
              Fn |-> fn]
      rregs == IF it.regs.PC = NoReg THEN [it.regs EXCEPT !.PC = it.pc] ELSE it.regs
      atCall == /\ ~it.top /\ fn # NoFn /\ it.pc # fn.Entry /\ ~it.sigret
                /\ fn.Name \notin {"runtime.mstart", "runtime.systemstack_switch"}
      c == IF fn # NoFn /\ HasDwarfTree(fn) /\ ~it.systemstack /\ it.g # NoG
             THEN readLocalPtrVar(fn, rregs, m) ELSE 0
  IN [ZeroFrame EXCEPT
        !.Current = cur,
        !.Call = CallLocation(cur, fn, it.pc, atCall),
        !.Regs = rregs, !.Ret = ret,
        !.stackHi = it.stackhi, !.SystemStack = it.systemstack,
        !.lastpc = IF atCall THEN it.pc - 1 ELSE it.pc,
        !.closurePtr = IF c = 0 THEN 0
                       ELSE IF c >= it.g.stacklo /\ c < it.g.stackhi THEN c - it.g.stackhi
                       ELSE c]

\* stackIterator.newStackframe: the frame, and the iterator with it.err set
\* when retaddr is 0
newStackframe(it, ret, retaddr, m) ==
  IF retaddr = 0
    THEN [it |-> [it EXCEPT !.err = ErrNull], frame |-> ZeroFrame]
    ELSE [it |-> it, frame |-> newStackframeAt(it, ret, m, PCToLine(it.pc))]

\* ------------------------------------------------------------ stack switches

\* The frame built by newStackframe holds a copy of it.regs that shares the
\* register objects: a write through it.regs.Reg(n) is seen by it.frame.Regs
\* (the slot of BP is shared only while the PC register was present, since
\* adding PC to the copy reallocates its slice).  The zero frame shares nothing.
SetRegs(it, sp, bp, lr) ==
  LET fr == it.frame
      slots == it.regs.PC # NoReg
      fregs == [fr.Regs EXCEPT !.SP = sp, !.LR = lr,
                               !.BP = IF slots THEN bp ELSE @]
  IN [it EXCEPT !.regs = [@ EXCEPT !.SP = sp, !.BP = bp, !.LR = lr],
                !.frame = IF fr = ZeroFrame THEN fr ELSE [fr EXCEPT !.Regs = fregs]]

\* switchToGoroutineStack that leaves the BP register alone
switchToGoroutineStackKeepBP(it) ==
  IF it.g = NoG THEN [it |-> it, err |-> ErrNilG]
  ELSE
    LET it1 == [it EXCEPT !.systemstack = FALSE, !.top = FALSE, !.pc = it.g.PC]
    IN IF usesLR /\ it.regs.LR = NoReg
         THEN [it |-> SetRegs(it1, it.g.SP, it.regs.BP, NoReg), err |-> ErrLRNil]
         ELSE [it |-> SetRegs(it1, it.g.SP, it.regs.BP,
                              IF usesLR THEN it.g.LR ELSE it.regs.LR),
               err |-> NoErr]

\* stackIterator.switchToGoroutineStack: the iterator and the returned error
switchToGoroutineStack(it) ==
  IF it.g = NoG THEN [it |-> it, err |-> ErrNilG]
  ELSE
    LET it1 == [it EXCEPT !.systemstack = FALSE, !.top = FALSE, !.pc = it.g.PC]
    IN IF usesLR /\ it.regs.LR = NoReg
         THEN [it |-> SetRegs(it1, it.g.SP, it.g.BP, NoReg), err |-> ErrLRNil]
         ELSE [it |-> SetRegs(it1, it.g.SP, it.g.BP,
                              IF usesLR THEN it.g.LR ELSE it.regs.LR),
               err |-> NoErr]

\* stackIterator.loadG0SchedSP
loadG0SchedSP(it) ==
  IF it.g0_sched_sp_loaded THEN it
  ELSE [it EXCEPT !.g0_sched_sp_loaded = TRUE,
                  !.g0_sched_sp = IF it.g # NoG /\ it.g.g0sp # 0 THEN it.g.g0sp ELSE @]

\* result of arm64SwitchStack: the iterator, the caller's registers (passed
\* by pointer), the returned boolean, and whether a nil register was written
SwRes(it, cfr, sw) == [it |-> it, callFrameRegs |-> cfr, switched |-> sw, panic |-> FALSE]

\* "if err := it.switchToGoroutineStack(); err != nil { it.err = err; return false }; return true"
SwitchOrFail(it, cfr) ==
  LET r == switchToGoroutineStack(it) IN
  IF r.err # NoErr THEN SwRes([r.it EXCEPT !.err = r.err], cfr, FALSE)
  ELSE SwRes(r.it, cfr, TRUE)

\* go version of the producer of the binary is >= 1.19
ProducerAfterOrEqual119 == TRUE

\* arm64SwitchStack, second part: the function the frame returns to
SwitchByRet(it, cfr, m) ==
  LET fn == PCToFunc(it.frame.Ret) IN
  IF fn = NoFn THEN SwRes(it, cfr, FALSE)
  ELSE IF fn.Name = "runtime.asmcgocall" THEN
    (IF ~it.systemstack THEN SwRes(it, cfr, FALSE)
     ELSE LET off == ReadRaw(m, cfr.SP + arm64cgocallSPOffsetSaveSlot)
              newsp == it.stackhi - off
          IN IF newsp = cfr.SP THEN SwRes(it, cfr, FALSE)
             ELSE SwRes([it EXCEPT !.systemstack = FALSE],
                        [cfr EXCEPT !.SP = newsp], FALSE))
  ELSE IF fn.Name \in {"runtime.cgocallback_gofunc", "runtime.cgocallback"} THEN
    (IF it.systemstack THEN SwRes(it, cfr, FALSE)
     ELSE LET it1 == loadG0SchedSP(it) IN
          IF it1.g0_sched_sp <= 0 THEN SwRes(it1, cfr, FALSE)
          ELSE SwRes([it1 EXCEPT
                        !.g0_sched_sp = ReadRaw(m, it1.g0_sched_sp + prevG0schedSPOffsetSaveSlot),
                        !.systemstack = TRUE],
                     [cfr EXCEPT !.SP = it1.g0_sched_sp], FALSE))
  ELSE SwRes(it, cfr, FALSE)

\* the runtime.cgocallback case without "it.systemstack = true"
SwitchCgocallbackFrameKeepStack(n, callFrameRegs, cfr) ==
  SwRes([n.it EXCEPT !.pc = n.frame.Ret, !.regs = callFrameRegs], cfr, TRUE)

\* arm64SwitchStack, lines 1290-1295: n is the frame built on the system stack
SwitchCgocallbackFrame(n, callFrameRegs, cfr) ==
  SwRes([n.it EXCEPT !.pc = n.frame.Ret, !.regs = callFrameRegs, !.systemstack = TRUE],
        cfr, TRUE)

\* arm64SwitchStack, line 1289: a is what advanceRegs gives on the system stack
SwitchCgocallbackAdvance(a, cfr, m) ==
  SwitchCgocallbackFrame(newStackframe(a.it, a.ret, a.retaddr, m), a.callFrameRegs, cfr)

\* arm64SwitchStack, lines 1281-1288: it1 is the iterator after loadG0SchedSP
SwitchCgocallbackG0(it1, cfr, m) ==
  IF it1.g0_sched_sp <= 0 THEN SwRes(it1, cfr, FALSE)
  ELSE SwitchCgocallbackAdvance(
         advanceRegs(
           [SetRegs(it1, it1.g0_sched_sp, it1.regs.BP, it1.regs.LR) EXCEPT
              !.g0_sched_sp = ReadRaw(m, it1.g0_sched_sp + prevG0schedSPOffsetSaveSlot),
              !.top = FALSE],
           m),
         cfr, m)

\* arm64SwitchStack, the runtime.cgocallback case on linux
SwitchCgocallback(it, cfr, m) ==
  IF it.top \/ it.systemstack THEN SwRes(it, cfr, FALSE)
  ELSE SwitchCgocallbackG0(loadG0SchedSP(it), cfr, m)

\* arm64SwitchStack, the runtime.asmcgocall case on linux
SwitchAsmcgocall(it, cfr, m) ==
  IF it.top \/ ~it.systemstack THEN SwRes(it, cfr, FALSE)
  ELSE
    LET off == ReadRaw(m, it.regs.SP + arm64cgocallSPOffsetSaveSlot)
        oldsp == it.regs.SP
        newsp == it.stackhi - off
        it1 == SetRegs(it, newsp, it.regs.BP, it.regs.LR)
        ret == ReadRaw(m, newsp + PtrSize * 3)
    IN IF newsp = oldsp THEN SwRes(it1, cfr, FALSE)
       ELSE SwRes([it1 EXCEPT !.top = FALSE, !.systemstack = FALSE,
                              !.frame.Ret = ret, !.pc = ret],
                  cfr, TRUE)

\* arm64SwitchStack, the crosscall2 case
SwitchCrosscall2(it, cfr, m) ==
  LET bpoff == IF ProducerAfterOrEqual119 THEN 22 ELSE 14
      lroff == IF ProducerAfterOrEqual119 THEN 23 ELSE 15
      newsp == ReadRaw(m, it.regs.SP + 8 * 24)
      newbp == ReadRaw(m, it.regs.SP + 8 * bpoff)
      newlr == ReadRaw(m, it.regs.SP + 8 * lroff)
      bp == IF it.regs.BP # NoReg THEN newbp
            ELSE readRegisterAt(m, it.regs.SP + 8 * bpoff).reg
  IN IF it.regs.LR = NoReg
       THEN [SwRes(it, cfr, FALSE) EXCEPT !.panic = TRUE]
       ELSE SwRes([SetRegs(it, IF linux THEN newbp ELSE newsp, bp, newlr)
                     EXCEPT !.pc = newlr],
                  cfr, TRUE)

\* arm64SwitchStack without the case of the "top of stack" functions
arm64SwitchStackNoTopOfStack(it, cfr, m) ==
  LET fn == it.frame.Current.Fn IN
  IF fn = NoFn THEN
    (IF it.systemstack /\ it.g # NoG /\ it.top
       THEN SwitchOrFail(it, cfr) ELSE SwRes(it, cfr, FALSE))
  ELSE IF fn.Name \in {"runtime.cgocallback_gofunc", "runtime.cgocallback"} /\ linux
    THEN SwitchCgocallback(it, cfr, m)
  ELSE IF fn.Name = "runtime.asmcgocall" /\ linux
    THEN SwitchAsmcgocall(it, cfr, m)
  ELSE IF fn.Name = "runtime.mcall" THEN
    (IF it.systemstack /\ it.g # NoG
       THEN SwitchOrFail(it, cfr)
       ELSE SwRes([it EXCEPT !.atend = TRUE], cfr, TRUE))
  ELSE IF fn.Name = "crosscall2"
    THEN SwitchCrosscall2(it, cfr, m)
  ELSE IF fn.Name = "runtime.mstart" /\ linux THEN
    (IF it.top \/ ~it.systemstack \/ it.g = NoG THEN SwRes(it, cfr, FALSE)
     ELSE IF ~InFn(it.g.PC, "runtime.systemstack_switch") THEN SwRes(it, cfr, FALSE)
     ELSE SwitchOrFail(it, cfr))
  ELSE IF fn.Name \in {"runtime.newstack", "runtime.systemstack"}
          /\ it.systemstack /\ it.g # NoG
    THEN SwitchOrFail(it, cfr)
  ELSE SwitchByRet(it, cfr, m)

\* arm64SwitchStack
arm64SwitchStack(it, cfr, m) ==
  LET fn == it.frame.Current.Fn IN
  IF fn = NoFn THEN
    (IF it.systemstack /\ it.g # NoG /\ it.top
       THEN SwitchOrFail(it, cfr) ELSE SwRes(it, cfr, FALSE))
  ELSE IF fn.Name \in {"runtime.cgocallback_gofunc", "runtime.cgocallback"} /\ linux
    THEN SwitchCgocallback(it, cfr, m)
  ELSE IF fn.Name = "runtime.asmcgocall" /\ linux
    THEN SwitchAsmcgocall(it, cfr, m)
  ELSE IF fn.Name \in {"runtime.goexit", "runtime.rt0_go"}
    THEN SwRes([it EXCEPT !.atend = TRUE], cfr, TRUE)
  ELSE IF fn.Name = "runtime.mcall" THEN
    (IF it.systemstack /\ it.g # NoG
       THEN SwitchOrFail(it, cfr)
       ELSE SwRes([it EXCEPT !.atend = TRUE], cfr, TRUE))
  ELSE IF fn.Name = "crosscall2"
    THEN SwitchCrosscall2(it, cfr, m)
  ELSE IF fn.Name = "runtime.mstart" /\ linux THEN
    (IF it.top \/ ~it.systemstack \/ it.g = NoG THEN SwRes(it, cfr, FALSE)
     ELSE IF ~InFn(it.g.PC, "runtime.systemstack_switch") THEN SwRes(it, cfr, FALSE)
     ELSE SwitchOrFail(it, cfr))
  ELSE IF fn.Name \in {"runtime.newstack", "runtime.systemstack"}
          /\ it.systemstack /\ it.g # NoG
    THEN SwitchOrFail(it, cfr)
  ELSE SwitchByRet(it, cfr, m)

\* ----------------------------------------------------------------- iterator

\* a failed readSigtrampgoContext
SigFail == [PC |-> NoReg, SP |-> NoReg, BP |-> NoReg, LR |-> NoReg, CFA |-> 0]

\* Next, lines 277-293: sw is what the stack switch gave
NextAfterSwitch(sw) ==
  IF sw.panic THEN [it |-> sw.it, ok |-> FALSE, panic |-> TRUE]
  ELSE IF sw.switched THEN [it |-> sw.it, ok |-> TRUE, panic |-> FALSE]
  ELSE IF sw.it.frame.Ret <= 0
    THEN [it |-> [sw.it EXCEPT !.atend = TRUE], ok |-> TRUE, panic |-> FALSE]
  ELSE [it |-> [sw.it EXCEPT
                  !.sigret = (sw.it.frame.Current.Fn # NoFn
                              /\ sw.it.frame.Current.Fn.Name = "runtime.sigpanic"),
                  !.top = FALSE, !.pc = sw.it.frame.Ret,
                  !.regs = sw.callFrameRegs],
        ok |-> TRUE, panic |-> FALSE]

\* Next with a sigtrampgo hop that leaves it.top alone
\* (the variant the claim on the signal context is checked against)
NextWithFrameKeepTop(it1, cfr, m, sig) ==
  IF /\ it1.frame.Current.Fn # NoFn
     /\ it1.frame.Current.Fn.Name = "runtime.sigtrampgo"
     /\ it1.target
     /\ sig # SigFail
    THEN [it |-> [it1 EXCEPT
                    !.pc = sig.PC, !.regs = sig,
                    !.systemstack =
                       IF it1.g # NoG /\ it1.g.ID # 0
                         THEN ~(sig.SP >= it1.g.stacklo /\ sig.SP < it1.g.stackhi)
                         ELSE @],
          ok |-> TRUE, panic |-> FALSE]
    ELSE NextAfterSwitch(IF ~it1.opts.StacktraceSimple
                           THEN arm64SwitchStack(it1, cfr, m)
                           ELSE SwRes(it1, cfr, FALSE))

\* Next, lines 259-282: it1 is the iterator with the new it.frame, cfr the
\* caller's registers advanceRegs computed
NextWithFrame(it1, cfr, m, sig) ==
  IF /\ it1.frame.Current.Fn # NoFn
     /\ it1.frame.Current.Fn.Name = "runtime.sigtrampgo"
     /\ it1.target
     /\ sig # SigFail
    THEN [it |-> [it1 EXCEPT
                    !.pc = sig.PC, !.regs = sig, !.top = FALSE,
                    !.systemstack =
                       IF it1.g # NoG /\ it1.g.ID # 0
                         THEN ~(sig.SP >= it1.g.stacklo /\ sig.SP < it1.g.stackhi)
                         ELSE @],
          ok |-> TRUE, panic |-> FALSE]
    ELSE NextAfterSwitch(IF ~it1.opts.StacktraceSimple
                           THEN arm64SwitchStack(it1, cfr, m)
                           ELSE SwRes(it1, cfr, FALSE))

\* Next, line 248: n is what newStackframe gave
NextWithNewFrame(n, cfr, m, sig) ==
  NextWithFrame([n.it EXCEPT !.frame = n.frame], cfr, m, sig)

\* Next, line 247: a is what advanceRegs gave
NextAfterAdvance(a, m, sig) ==
  NextWithNewFrame(newStackframe(a.it, a.ret, a.retaddr, m), a.callFrameRegs, m, sig)

\* stackIterator.Next; sig is what readSigtrampgoContext returns
\* (SigFail for an error).  ok is the returned boolean.
Next(it, m, sig) ==
  IF it.err # NoErr \/ it.atend THEN [it |-> it, ok |-> FALSE, panic |-> FALSE]
  ELSE NextAfterAdvance(advanceRegs(it, m), m, sig)

\* Frame without the assignment to it.frame.Bottom
\* (the variant the claim on Bottom is checked against)
FrameKeepBottom(it) == it

\* stackIterator.Frame: the iterator after it.frame.Bottom = it.atend
Frame(it) == [it EXCEPT !.frame.Bottom = it.atend]

\* ------------------------------------------------------------ inline expander

RECURSIVE InlineLoop(_, _, _, _)
\* The loop of appendInlineCalls over entries[k..]: frame is the local copy of
\* the physical frame, out the frames passed to callback so far
InlineLoop(frame, entries, k, out) ==
  IF k > Len(entries) THEN [frame |-> frame, out |-> out]
  ELSE
    LET entry == entries[k]
        fr == [frame EXCEPT !.hasInlines = TRUE]
    IN
    IF ~entry.okname \/ ~entry.okfileidx \/ ~entry.okline
      THEN [frame |-> fr, out |-> out]
    ELSE IF filePath(entry.CallFile) = ""
      THEN [frame |-> fr, out |-> out]
    ELSE
      LET inlfn == [Name |-> entry.Name, Entry |-> fr.Call.Fn.Entry,
                    End |-> fr.Call.Fn.End, offset |-> entry.Offset,
                    cu |-> fr.Call.Fn.cu]
          inl == [ZeroFrame EXCEPT
                    !.Current = fr.Current,
                    !.Call = [PC |-> fr.Call.PC, File |-> fr.Call.File,
                              Line |-> fr.Call.Line, Fn |-> inlfn],
                    !.Regs = fr.Regs, !.stackHi = fr.stackHi, !.Ret = fr.Ret,
                    !.Err = fr.Err, !.SystemStack = fr.SystemStack,
                    !.Inlined = TRUE, !.lastpc = fr.lastpc,
                    !.closurePtr = fr.closurePtr]
      IN InlineLoop([fr EXCEPT !.Call.File = filePath(entry.CallFile),
                               !.Call.Line = entry.CallLine],
                    entries, k + 1, Append(out, inl))

\* appendInlineCalls passing the physical frame to callback before its
\* inlined calls (the variant the claim on their order is checked against)
appendInlineCallsPhysicalFirst(it, frame) ==
  IF \/ frame.Call.Fn = NoFn
     \/ frame.Call.Fn.cu \in NoLineInfoCUs
     \/ ~HasDwarfTree(frame.Call.Fn)
    THEN [count |-> it.count + 1, out |-> << frame >>]
    ELSE
      LET callpc == IF it.count > 0 THEN frame.Call.PC - 1 ELSE frame.Call.PC
          r == InlineLoop(frame, InlineStack(frame.Call.Fn, callpc), 1, << >>)
      IN [count |-> it.count + Len(r.out) + 1, out |-> << r.frame >> \o r.out]

\* stackIterator.appendInlineCalls: the frames passed to callback, in order,
\* and the new it.count.  Only the result of the last callback is returned
\* to the caller.
appendInlineCalls(it, frame) ==
  IF \/ frame.Call.Fn = NoFn
     \/ frame.Call.Fn.cu \in NoLineInfoCUs
     \/ ~HasDwarfTree(frame.Call.Fn)
    THEN [count |-> it.count + 1, out |-> << frame >>]
    ELSE
      LET callpc == IF it.count > 0 THEN frame.Call.PC - 1 ELSE frame.Call.PC
          r == InlineLoop(frame, InlineStack(frame.Call.Fn, callpc), 1, << >>)
      IN [count |-> it.count + Len(r.out) + 1, out |-> Append(r.out, r.frame)]

\* -------------------------------------------------------------------- state

VARIABLES
  created,  \* the stackIterator as newStackIterator returned it
  it,       \* the stackIterator
  mem,      \* the cells of target memory decided so far: address -> word
  image,    \* the target: which code its stacks return to
  depth,    \* the argument of stacktrace
  frames,   \* the frames slice of stacktrace / the argument of readDefers
  phase,    \* position inside stacktrace / readDefers
  result,   \* what stacktrace returned: [frames, err]
  gdefer,   \* g._defer and the _defer records of the target: address -> record
  curdefer, \* readDefers: the defer under the cursor
  fi,       \* readDefers: the frame index i
  rf        \* the local variables of rangeFuncStackTrace

vars == << created, it, mem, image, depth, frames, phase, result, gdefer, curdefer, fi, rf >>

\* what stacktrace leaves alone
deferVars == << gdefer, curdefer, fi, rf >>

\* what readDefers leaves alone
traceVars == << created, it, mem, image, depth, result, rf >>

\* rangeFuncStackTrace, lines 975-980: its local variables before the walk
\* (the frames slice is the variable frames), and the history of the frames
\* its callback was called with
RangeFuncLocals ==
  [stage |-> "startStage", addRetFrame |-> FALSE, rangeParent |-> NoFn,
   nonMonotonicSP |-> FALSE, closurePtr |-> 0, delivered |-> << >>]

\* ------------------------------------------------------------- environment

\* the targets stopped in a range-over-func statement of main.f, built
\* without and with optimizations
RangeImages == {"range", "rangeopt"}

\* code addresses found in undecided cells that are read as a return address
PCWords ==
  CASE image = "user" -> {0, 1004, 1024, 1136}
    [] image = "runtime" -> {0, 900, 1004, 1104, 1216}
    [] image \in RangeImages -> {0, 900, 1004, 1018, 1024, 1376}
    [] image = "cgo" -> {0, 1004, 1216, 1264}
    [] OTHER -> {0}

\* words found in undecided cells read as data (saved registers, offsets)
DataWords == {0, 24, 144}

\* words found in the cells crosscall2 saved x29 and x30 in
SavedFPWords == {24}
SavedLRWords == {0, 1004, 1024}

\* words found in the cell of .closureptr: nil, the address of a closure on
\* the goroutine stack, the address of a closure on the heap
ClosureWords == {0, GStackLo + 24, 200}

\* the words an undecided cell may hold, by the use of its first read
WordsOf(kind) ==
  CASE kind = "pc" -> PCWords
    [] kind = "savedfp" -> SavedFPWords
    [] kind = "savedlr" -> SavedLRWords
    [] kind = "unused" -> {0}
    [] kind = "closure" -> ClosureWords
    [] OTHER -> DataWords

\* the cells the rules of ctx read when the CFA is cfa
RuleAddrsCFA(ctx, regs, cfa, afterSigpanic) ==
  IF cfa = NoReg THEN {}
  ELSE
    { [addr |-> cfa + ctx.Regs[r].Offset,
       kind |-> IF r \in {"PC", "LR"} THEN "pc" ELSE "data"] :
         r \in {x \in DOMAIN ctx.Regs : ctx.Regs[x].Rule = "Offset"} }
    \cup
    { [addr |-> RegVal(regs, ctx.Regs[r].Reg), kind |-> "data"] :
         r \in {x \in DOMAIN ctx.Regs :
                  /\ ctx.Regs[x].Rule = "FramePointer"
                  /\ RegVal(regs, ctx.Regs[x].Reg) # NoReg
                  /\ RegVal(regs, ctx.Regs[x].Reg) <= cfa} }
    \cup
    (IF afterSigpanic THEN {[addr |-> cfa, kind |-> "pc"]} ELSE {})

\* the cells the rules of ctx read with the registers regs
RuleAddrsCtx(ctx, regs, afterSigpanic) ==
  RuleAddrsCFA(ctx, regs, executeFrameRegRule(regs, << >>, "X0", ctx.CFA, 0).reg,
               afterSigpanic)

\* the cells a rule evaluation of advanceRegs may read at pc with regs
RuleAddrs(pc, regs, afterSigpanic) ==
  RuleAddrsCtx(FrameContextAt(pc), regs, afterSigpanic)

\* the cells Next may read whatever memory holds
Stage1Addrs(i) ==
  LET fn == PCToFunc(i.pc)
      sp == i.regs.SP
      g0 == loadG0SchedSP(i).g0_sched_sp
  IN
  RuleAddrs(i.pc, i.regs,
            i.frame.Call.Fn # NoFn /\ i.frame.Call.Fn.Name = "runtime.sigpanic")
  \cup
  (IF fn # NoFn /\ fn.Name \in ClosureFns /\ sp # NoReg
     THEN {[addr |-> sp, kind |-> "closure"]} ELSE {})
  \cup
  (IF i.opts.StacktraceSimple \/ fn = NoFn THEN {}
   ELSE IF fn.Name = "runtime.asmcgocall"
     THEN {[addr |-> sp + arm64cgocallSPOffsetSaveSlot, kind |-> "data"]}
   ELSE IF fn.Name = "crosscall2"
     THEN {[addr |-> sp + 8 * 24, kind |-> IF linux THEN "unused" ELSE "savedfp"],
           [addr |-> sp + 8 * (IF ProducerAfterOrEqual119 THEN 22 ELSE 14), kind |-> "savedfp"],
           [addr |-> sp + 8 * (IF ProducerAfterOrEqual119 THEN 23 ELSE 15), kind |-> "savedlr"]}
   ELSE IF fn.Name \in {"runtime.cgocallback", "runtime.cgocallback_gofunc"}
     THEN {[addr |-> g0 + prevG0schedSPOffsetSaveSlot, kind |-> "data"]}
          \cup RuleAddrs(i.pc, [i.regs EXCEPT !.SP = g0], FALSE)
   ELSE {})

\* the cells the stack switch may read, a being what advanceRegs gives
SwitchAddrs(i, m, a, fn, retfn, g0) ==
  IF i.opts.StacktraceSimple THEN {}
  ELSE
    (IF fn # NoFn /\ fn.Name = "runtime.asmcgocall"
       THEN {[addr |-> i.stackhi - ReadRaw(m, i.regs.SP + arm64cgocallSPOffsetSaveSlot)
                         + PtrSize * 3,
              kind |-> "pc"]}
       ELSE {})
    \cup
    (IF retfn # NoFn /\ retfn.Name = "runtime.asmcgocall" /\ a.callFrameRegs.SP # NoReg
       THEN {[addr |-> a.callFrameRegs.SP + arm64cgocallSPOffsetSaveSlot, kind |-> "data"]}
     ELSE IF retfn # NoFn /\ retfn.Name \in {"runtime.cgocallback", "runtime.cgocallback_gofunc"}
       THEN {[addr |-> g0 + prevG0schedSPOffsetSaveSlot, kind |-> "data"]}
     ELSE {})

\* the cells Next may read depending on what the first cells hold
Stage2AddrsAdvance(i, m, a) ==
  SwitchAddrs(i, m, a, PCToFunc(i.pc), PCToFunc(a.ret), loadG0SchedSP(i).g0_sched_sp)

Stage2Addrs(i, m) == Stage2AddrsAdvance(i, m, advanceRegs(i, m))

\* every way to decide the undecided mapped cells among addrs; a cell asked
\* for under two uses is decided as a code address
Decide(m, addrs) ==
  LET new == {a \in addrs : a.addr \in Mapped /\ a.addr \notin DOMAIN m}
      of(kind) == {a.addr : a \in {x \in new : x.kind = kind}}
      pcs == of("pc")
      fps == of("savedfp") \ pcs
      lrs == of("savedlr") \ pcs
      zrs == of("unused") \ pcs
      cls == of("closure") \ pcs
      dat == (of("data") \ pcs) \ cls
  IN { [x \in DOMAIN m \cup pcs \cup fps \cup lrs \cup zrs \cup cls \cup dat |->
          IF x \in DOMAIN m THEN m[x]
          ELSE IF x \in pcs THEN fp[x]
          ELSE IF x \in fps THEN ff[x]
          ELSE IF x \in lrs THEN fl[x]
          ELSE IF x \in zrs THEN 0
          ELSE IF x \in cls THEN fc[x]
          ELSE fd[x]] :
       fp \in [pcs -> WordsOf("pc")], ff \in [fps -> WordsOf("savedfp")],
       fl \in [lrs -> WordsOf("savedlr")], fc \in [cls -> WordsOf("closure")],
       fd \in [dat -> WordsOf("data")] }

\* what readSigtrampgoContext may return for the frame at i.pc
SigContexts(i) ==
  IF InFn(i.pc, "runtime.sigtrampgo") /\ i.target
    THEN {SigFail,
          [PC |-> 1004, SP |-> GStackLo + 8, BP |-> 0, LR |-> 1004, CFA |-> 0],
          [PC |-> 1004, SP |-> SysStackLo + 8, BP |-> 0, LR |-> 1004, CFA |-> 0]}
    ELSE {SigFail}

\* ------------------------------------------------------------ construction

\* the goroutine of the target: parked (no thread), running on its own
\* stack, or running on the system stack; pc is its saved PC
Goroutine(pc, thread, systemstack) ==
  [ID |-> 1, PC |-> pc, SP |-> GStackLo, BP |-> 0, LR |-> 1004,
   stacklo |-> GStackLo, stackhi |-> GStackHi,
   SystemStack |-> systemstack, Thread |-> thread, g0sp |-> 0]

\* the registers of a thread stopped at pc: every register is present
ThreadRegs(pc, sp, lr) == [PC |-> pc, SP |-> sp, BP |-> 0, LR |-> lr, CFA |-> 0]

\* the registers of a thread stopped at pc with its SP on the last mapped
\* cell of the system stack and its BP past it: the caller's frame cannot
\* be read
ThreadRegsAtStackEnd(pc, lr) ==
  [PC |-> pc, SP |-> SysStackHi - 8, BP |-> SysStackHi, LR |-> lr, CFA |-> 0]

\* where a thread without goroutine may be stopped
ThreadPCs ==
  {900, 1004, 1016, 1020, 1024, 1028, 1040, 1104, 1120, 1136, 1152, 1168, 1184,
   1200, 1216, 1232, 1248, 1264, 1296, 1312, 1328, 1344, 1360}

\* where the thread of a goroutine running on its own stack may be stopped
UserPCs == {1004, 1024, 1040, 1104, 1120, 1344}

\* where the thread of a goroutine running on the system stack may be stopped
SystemPCs == {900, 1120, 1168, 1184, 1216, 1232, 1296, 1344, 1360}

\* where a goroutine may be parked
ParkedPCs == {1004, 1024, 1200}

\* arm64AddrAndStackRegsToDwarfRegisters
arm64AddrAndStackRegsToDwarfRegisters(pc, sp, bp, lr) ==
  [PC |-> pc, SP |-> sp, BP |-> bp, LR |-> lr, CFA |-> 0]

\* goroutineStackIterator
goroutineStackIterator(hasTarget, g, threadRegs, opts) ==
  IF g.Thread
    THEN newStackIterator(hasTarget, threadRegs, g.stackhi, g, opts)
    ELSE newStackIterator(hasTarget,
           arm64AddrAndStackRegsToDwarfRegisters(g.PC, g.SP, g.BP, g.LR),
           g.stackhi, g, opts)

\* The iterators ThreadStacktrace and GoroutineStacktrace construct:
\* a thread without goroutine is traced with stackhi 0, g nil and no option
\* (one thread is stopped in runtime.mstart with a frame pointer that leads
\* through a frame without function; one is stopped outside of every function
\* or in runtime.sigreturn with a frame pointer into the system stack;
\* one goroutine faulted on the system stack and is stopped in runtime.sigpanic)
Iterators ==
  { newStackIterator(TRUE, ThreadRegs(pc, SysStackLo, lr), 0, NoG,
                     MkOpts(FALSE, FALSE, FALSE)) :
      pc \in ThreadPCs, lr \in {0, 1004} }
  \cup
  { newStackIterator(FALSE, ThreadRegs(1120, SysStackLo, 1004), 0, NoG,
                     MkOpts(FALSE, FALSE, FALSE)) }
  \cup
  { goroutineStackIterator(TRUE, Goroutine(1024, TRUE, FALSE),
                           ThreadRegs(pc, GStackLo, 1004),
                           MkOpts(FALSE, simple, useG)) :
      pc \in UserPCs, simple \in BOOLEAN, useG \in BOOLEAN }
  \cup
  { goroutineStackIterator(TRUE, Goroutine(gpc, TRUE, TRUE),
                           ThreadRegs(pc, SysStackLo, 1004),
                           MkOpts(FALSE, simple, useG)) :
      pc \in SystemPCs, gpc \in {1024, 1200}, simple \in BOOLEAN, useG \in BOOLEAN }
  \cup
  { newStackIterator(TRUE, ThreadRegsAtStackEnd(1004, lr), 0, NoG,
                     MkOpts(FALSE, FALSE, FALSE)) :
      lr \in {0, 1004} }
  \cup
  { goroutineStackIterator(TRUE, Goroutine(1024, TRUE, TRUE),
                           ThreadRegsAtStackEnd(pc, lr),
                           MkOpts(FALSE, simple, FALSE)) :
      pc \in {900, 1004, 1136, 1152}, lr \in {0, 1004}, simple \in BOOLEAN }
  \cup
  { goroutineStackIterator(TRUE, Goroutine(1024, TRUE, TRUE),
                           [ThreadRegs(1184, SysStackLo, 1004) EXCEPT !.BP = SysStackLo + 24],
                           MkOpts(FALSE, FALSE, FALSE)) }
  \cup
  { goroutineStackIterator(TRUE, Goroutine(1024, TRUE, TRUE),
                           [ThreadRegs(pc, SysStackLo, 1004) EXCEPT !.BP = SysStackLo + 8],
                           MkOpts(FALSE, simple, FALSE)) :
      pc \in {900, 1312}, simple \in BOOLEAN }
  \cup
  { goroutineStackIterator(TRUE, Goroutine(1024, TRUE, TRUE),
                           ThreadRegs(1104, SysStackLo, 1004),
                           MkOpts(FALSE, simple, FALSE)) :
      simple \in BOOLEAN }
  \cup
  { goroutineStackIterator(TRUE, Goroutine(gpc, FALSE, FALSE),
                           ThreadRegs(0, 0, 0),
                           MkOpts(FALSE, simple, useG)) :
      gpc \in ParkedPCs, simple \in BOOLEAN, useG \in BOOLEAN }

\* the targets: one whose stacks hold return addresses into user code and
\* runtime.goexit, one whose stacks return into the runtime
Images == {"user", "runtime"}

\* The goroutines of a target whose C code called back into Go: the thread
\* is stopped on the goroutine stack, in Go code, in runtime.sigpanic, in
\* runtime.asmcgocall or in runtime.cgocallback, and g.m.g0.sched.sp is 0 or the base of the
\* system stack; the stacks of this target return into main.main,
\* runtime.systemstack and runtime.cgocallback
CgoIterators ==
  { goroutineStackIterator(TRUE, [Goroutine(1024, TRUE, FALSE) EXCEPT !.g0sp = g0],
                           ThreadRegs(pc, GStackLo, 1004),
                           MkOpts(FALSE, simple, FALSE)) :
      pc \in {1004, 1104, 1248, 1264}, g0 \in {0, SysStackLo}, simple \in BOOLEAN }

Init ==
  /\ \/ image \in Images /\ it \in Iterators
     \/ image = "cgo" /\ it \in CgoIterators
  /\ created = it
  /\ gdefer = [head |-> 0, recs |-> << >>]
  /\ curdefer = NoDefer
  /\ fi = 0
  /\ mem = << >>
  /\ depth = 0
  /\ frames = << >>
  /\ phase = "start"
  /\ result = [frames |-> << >>, err |-> NoErr]
  /\ rf = RangeFuncLocals

\* ------------------------------------------------------------------ actions

\* stacktraceFunc without the switch StacktraceG asks for
\* (the variant the claim on the first frame is checked against)
stacktraceFuncEnterThread(i) == [it |-> i, returned |-> FALSE]

\* stacktraceFunc without "it.top = true" after the switch
\* (the variant the claim on the restart is checked against)
stacktraceFuncEnterKeepTop(i) ==
  IF i.opts.StacktraceG /\ i.g # NoG
    THEN LET r == switchToGoroutineStack(i) IN
         IF r.err # NoErr
           THEN [it |-> [r.it EXCEPT !.err = r.err], returned |-> TRUE]
           ELSE [it |-> r.it, returned |-> FALSE]
    ELSE [it |-> i, returned |-> FALSE]

\* stacktraceFunc starting the walk over after the switch: it clears atend
\* (the variant the claim on the end of the stack is checked against)
stacktraceFuncEnterRewind(i) ==
  IF i.opts.StacktraceG /\ i.g # NoG
    THEN LET r == switchToGoroutineStack(i) IN
         IF r.err # NoErr
           THEN [it |-> [r.it EXCEPT !.err = r.err], returned |-> TRUE]
           ELSE [it |-> [r.it EXCEPT !.top = TRUE, !.atend = FALSE], returned |-> FALSE]
    ELSE [it |-> i, returned |-> FALSE]

\* the first statements of stackIterator.stacktraceFunc, before its loop:
\* the iterator and whether the function returned at once
stacktraceFuncEnter(i) ==
  IF i.opts.StacktraceG /\ i.g # NoG
    THEN LET r == switchToGoroutineStack(i) IN
         IF r.err # NoErr
           THEN [it |-> [r.it EXCEPT !.err = r.err], returned |-> TRUE]
           ELSE [it |-> [r.it EXCEPT !.top = TRUE], returned |-> FALSE]
    ELSE [it |-> i, returned |-> FALSE]

\* stacktrace(depth) up to the first iteration of the loop of stacktraceFunc
StacktraceCall ==
  /\ phase = "start"
  /\ \E d \in -1..MaxDepth :
       /\ depth' = d
       /\ IF d < 0
            THEN /\ result' = [frames |-> << >>, err |-> ErrDepth]
                 /\ phase' = "done"
                 /\ it' = it
            ELSE LET e == stacktraceFuncEnter(it) IN
                 /\ it' = e.it
                 /\ phase' = IF e.returned THEN "after1" ELSE "pass1"
                 /\ result' = result
  /\ frames' = << >>
  /\ UNCHANGED << created, mem, image >>
  /\ UNCHANGED deferVars

\* where stacktrace continues when the loop of stacktraceFunc ends
AfterPass(p) == IF p = "pass1" THEN "after1" ELSE "after2"

\* the body of the loop of stacktraceFunc: f is the iterator after it.Frame(),
\* a what appendInlineCalls passed to callback
DeliverFrames(f, a) ==
  /\ it' = [f EXCEPT !.count = a.count]
  /\ frames' = frames \o a.out
  /\ phase' = IF Len(frames \o a.out) < depth + 1 THEN phase ELSE AfterPass(phase)

\* the iterator after it.Frame() goes through appendInlineCalls
DeliverFrame(f) == DeliverFrames(f, appendInlineCalls(f, f.frame))

\* n is what it.Next() gave
DeliverNext(n) ==
  IF n.panic
    THEN /\ it' = n.it
         /\ frames' = frames
         /\ phase' = "panic"
    ELSE DeliverFrame(Frame(n.it))

\* one iteration of "for it.Next() { if !it.appendInlineCalls(callback,
\* it.Frame()) { break } }" in which Next returns true; callback is the
\* closure f of stacktrace
Deliver ==
  /\ phase \in {"pass1", "pass2"}
  /\ it.err = NoErr /\ ~it.atend
  /\ \E m1 \in Decide(mem, Stage1Addrs(it)) :
     \E m \in Decide(m1, Stage2Addrs(it, m1)) :
     \E sig \in SigContexts(it) :
       /\ mem' = m
       /\ DeliverNext(Next(it, m, sig))
  /\ UNCHANGED << created, image, depth, result >>
  /\ UNCHANGED deferVars

\* the call of it.Next() that returns false and ends the loop
EndOfPass ==
  /\ phase \in {"pass1", "pass2"}
  /\ it.err # NoErr \/ it.atend
  /\ phase' = AfterPass(phase)
  /\ UNCHANGED << created, it, mem, image, depth, frames, result >>
  /\ UNCHANGED deferVars

\* stacktrace after the first stacktraceFunc: the restart from the registers
\* saved in g
Restart ==
  /\ phase = "after1"
  /\ IF /\ it.err # NoErr /\ Len(frames) = 1 /\ it.g # NoG
        /\ frames[1].SystemStack /\ ~it.opts.StacktraceSimple
       THEN LET e == stacktraceFuncEnter(
                       [it EXCEPT !.err = NoErr, !.opts.StacktraceG = TRUE]) IN
            /\ it' = e.it
            /\ phase' = IF e.returned THEN "after2" ELSE "pass2"
       ELSE /\ it' = it
            /\ phase' = "after2"
  /\ UNCHANGED << created, mem, image, depth, frames, result >>
  /\ UNCHANGED deferVars

\* the end of stacktrace returning the error next to the frames collected
\* (the variant the claim on the terminal frame is checked against)
stacktraceResultErrAndFrames(i, fs) ==
  [frames |-> fs, err |-> i.err]

\* stacktrace, lines 411-419: what it returns; the error, if any, becomes a
\* last frame
stacktraceResult(i, fs) ==
  IF i.err # NoErr
    THEN IF Len(fs) = 0
           THEN [frames |-> << >>, err |-> i.err]
           ELSE [frames |-> Append(fs, [ZeroFrame EXCEPT !.Err = i.err]), err |-> NoErr]
    ELSE [frames |-> fs, err |-> NoErr]

\* the end of stacktrace
Return ==
  /\ phase = "after2"
  /\ result' = stacktraceResult(it, frames)
  /\ frames' = IF it.err # NoErr /\ Len(frames) > 0
                 THEN Append(frames, [ZeroFrame EXCEPT !.Err = it.err])
                 ELSE frames
  /\ phase' = "done"
  /\ UNCHANGED << created, it, mem, image, depth >>
  /\ UNCHANGED deferVars

StacktraceNext == StacktraceCall \/ Deliver \/ EndOfPass \/ Restart \/ Return

Spec == Init /\ [][StacktraceNext]_vars

\* ------------------------------------------------------- defer correlator

\* number of _defer records of the target: a record takes three cells
\* (sp, link, head)
MaxDefers == StackCells \div 3

\* readDefers is followed until a frame holds more than MaxAttach defers
MaxAttach == 3

DeferAddrs == 1..MaxDefers

ErrUnreadableDefer == "could not read defer"
errSPDecreased == "corrupted defer list: SP decreased"

\* a runtime._defer record of the target; readable is false when loadValue
\* fails on it
DeferRecs ==
  { [readable |-> FALSE, sp |-> 0, link |-> 0, head |-> 0] } \cup
  { [readable |-> TRUE, sp |-> sp, link |-> l, head |-> h] :
      sp \in {GStackLo, GStackLo + 16}, l \in {0} \cup DeferAddrs, h \in {0, MaxDefers} }

RECURSIVE RangeFuncList(_, _, _)
\* The loop of Defer.load(true) over the list that starts at the head field:
\* hd.load(false); append; stop at a nil link or past maxRangeFuncDefers
RangeFuncList(recs, a, out) ==
  LET rec == recs[a]
      hd == IF rec.readable
              THEN MkDefer(a, rec.sp, "", rec.link, << >>)
              ELSE MkDefer(a, 0, ErrUnreadableDefer, 0, << >>)
      out1 == Append(out, hd)
  IN IF hd.link = 0 THEN out1
     ELSE IF Len(out1) > maxRangeFuncDefers THEN out1
     ELSE RangeFuncList(recs, hd.link, out1)

\* Defer.load(canrecur) of the Defer whose variable is at address a
load(recs, a, canrecur) ==
  LET rec == recs[a] IN
  IF ~rec.readable THEN MkDefer(a, 0, ErrUnreadableDefer, 0, << >>)
  ELSE MkDefer(a, rec.sp, "", rec.link,
               IF canrecur /\ rec.head # 0
                 THEN RangeFuncList(recs, rec.head, << >>) ELSE << >>)

\* G.Defer: the loaded head of the g._defer list, nil when g._defer is 0
Defer(gd) == IF gd.head = 0 THEN NoDefer ELSE load(gd.recs, gd.head, TRUE)

\* Defer.Next
DeferNext(recs, d) ==
  IF d.link = 0 THEN NoDefer
  ELSE LET l == load(recs, d.link, TRUE) IN
       IF l.SP < d.SP THEN [l EXCEPT !.Unreadable = errSPDecreased] ELSE l

\* topdefer that does not look at the rangefunc list
topdeferSelf(d) == d

\* Defer.topdefer
topdefer(d) == IF Len(d.rangefunc) > 0 THEN d.rangefunc[1] ELSE d

\* notOfFrame with curdefer.SP > CFA in place of >=
\* (the variant the claim on the SP of attached defers is checked against)
notOfFrameStrict(fr, d) ==
  fr.SystemStack \/ fr.Inlined \/ d.SP > fr.Regs.CFA

\* notOfFrame without the test of Inlined
\* (the variant the claim on the frame a defer is attached to is checked
\* against)
notOfFrameInlined(fr, d) ==
  fr.SystemStack \/ d.SP >= fr.Regs.CFA

\* readDefers, line 724: the defer d was not added by the function of fr
notOfFrame(fr, d) ==
  fr.SystemStack \/ fr.Inlined \/ d.SP >= fr.Regs.CFA

\* the loop of readDefers returning on an unreadable defer without
\* attaching it
readDefersIterDropUnreadable(fs, cur, i, recs) ==
  IF cur = NoDefer \/ i >= Len(fs)
    THEN [frames |-> fs, curdefer |-> cur, i |-> i, returned |-> TRUE]
  ELSE IF cur.Unreadable # ""
    THEN [frames |-> fs, curdefer |-> cur, i |-> i, returned |-> TRUE]
  ELSE IF fs[i + 1].Err # NoErr
    THEN [frames |-> fs, curdefer |-> cur, i |-> i, returned |-> TRUE]
  ELSE
    LET fs1 == IF fs[i + 1].TopmostDefer = NoDefer
                 THEN [fs EXCEPT ![i + 1].TopmostDefer = topdefer(cur)]
                 ELSE fs
    IN IF notOfFrame(fs1[i + 1], cur)
         THEN [frames |-> fs1, curdefer |-> cur, i |-> i + 1, returned |-> FALSE]
         ELSE [frames |-> [fs1 EXCEPT ![i + 1].Defers =
                             IF Len(cur.rangefunc) > 0
                               THEN @ \o cur.rangefunc ELSE Append(@, cur)],
               curdefer |-> DeferNext(recs, cur), i |-> i, returned |-> FALSE]

\* One iteration of the loop of G.readDefers with the cursor on frames[i+1]
\* (Go's frames[i]): the frames, the cursor, and whether readDefers returned
readDefersIter(fs, cur, i, recs) ==
  IF cur = NoDefer \/ i >= Len(fs)
    THEN [frames |-> fs, curdefer |-> cur, i |-> i, returned |-> TRUE]
  ELSE IF cur.Unreadable # ""
    THEN [frames |-> [fs EXCEPT ![i + 1].Defers = Append(@, cur)],
          curdefer |-> cur, i |-> i, returned |-> TRUE]
  ELSE IF fs[i + 1].Err # NoErr
    THEN [frames |-> fs, curdefer |-> cur, i |-> i, returned |-> TRUE]
  ELSE
    LET fs1 == IF fs[i + 1].TopmostDefer = NoDefer
                 THEN [fs EXCEPT ![i + 1].TopmostDefer = topdefer(cur)]
                 ELSE fs
    IN IF notOfFrame(fs1[i + 1], cur)
         THEN [frames |-> fs1, curdefer |-> cur, i |-> i + 1, returned |-> FALSE]
         ELSE [frames |-> [fs1 EXCEPT ![i + 1].Defers =
                             IF Len(cur.rangefunc) > 0
                               THEN @ \o cur.rangefunc ELSE Append(@, cur)],
               curdefer |-> DeferNext(recs, cur), i |-> i, returned |-> FALSE]

\* A frame of the list handed to readDefers: a frame on the goroutine stack
\* (inlined or not), a frame on the system stack
TracedFrame(cfa, systemstack, inlined) ==
  [ZeroFrame EXCEPT !.Regs.CFA = cfa, !.Regs.SP = cfa - 16, !.SystemStack = systemstack,
                    !.Inlined = inlined, !.Ret = 1004]

TracedFrames ==
  { TracedFrame(cfa, FALSE, inl) : cfa \in {GStackLo + 16, GStackLo + 32}, inl \in BOOLEAN }
  \cup { TracedFrame(SysStackLo + 16, TRUE, FALSE) }

\* The frame lists stacktrace returns: an inlined frame is followed by a
\* frame with the same registers, an error frame comes last
FrameLists ==
  LET lists == UNION { [1..n -> TracedFrames] : n \in 1..(MaxDepth + 1) }
      ok(l) == \A k \in 1..Len(l) :
                 l[k].Inlined => /\ k < Len(l)
                                 /\ l[k + 1].Regs = l[k].Regs
                                 /\ l[k + 1].SystemStack = l[k].SystemStack
      good == {l \in lists : ok(l)}
  IN good \cup { Append(l, [ZeroFrame EXCEPT !.Err = ErrRet]) : l \in good }

\* the defer lists of the target
DeferHeaps ==
  { [head |-> 0, recs |-> [a \in DeferAddrs |-> [readable |-> FALSE, sp |-> 0, link |-> 0, head |-> 0]]] }
  \cup { [head |-> 1, recs |-> r] : r \in [DeferAddrs -> DeferRecs] }

\* defer lists with a range-over-func statement: the second defer of the link
\* chain carries a rangefunc list of one entry, the third record
RangeFuncHeaps ==
  { [head |-> 1,
     recs |-> << [readable |-> TRUE, sp |-> sp1, link |-> 2, head |-> 0],
                 [readable |-> TRUE, sp |-> sp2, link |-> 0, head |-> 3],
                 [readable |-> r3, sp |-> sp3, link |-> 0, head |-> 0] >>] :
      sp1 \in {GStackLo, GStackLo + 16}, sp2 \in {GStackLo, GStackLo + 16},
      sp3 \in {0, GStackLo, GStackLo + 16}, r3 \in BOOLEAN }

InitDefers ==
  /\ image = "user"
  /\ it = goroutineStackIterator(TRUE, Goroutine(1004, FALSE, FALSE), ThreadRegs(0, 0, 0),
                                 MkOpts(TRUE, FALSE, FALSE))
  /\ created = it
  /\ mem = << >>
  /\ depth = MaxDepth
  /\ frames \in FrameLists
  /\ result = [frames |-> frames, err |-> NoErr]
  /\ gdefer \in DeferHeaps \cup RangeFuncHeaps
  /\ curdefer = NoDefer
  /\ fi = 0
  /\ rf = RangeFuncLocals
  /\ phase = "rd_start"

\* G.readDefers up to its loop: curdefer := g.Defer(); i := 0.  It is
\* called on the frames of a trace and, once it returned, a second time on
\* the same frames; result keeps the frames it is called with
ReadDefersCall ==
  /\ phase \in {"rd_start", "rd_done"}
  /\ curdefer' = Defer(gdefer)
  /\ fi' = 0
  /\ phase' = IF phase = "rd_start" THEN "rd_loop" ELSE "rd_loop2"
  /\ result' = [frames |-> frames, err |-> NoErr]
  /\ UNCHANGED << frames, gdefer >>
  /\ UNCHANGED << created, it, mem, image, depth, rf >>

\* one iteration of the loop of G.readDefers
ReadDefersStep ==
  /\ phase \in {"rd_loop", "rd_loop2"}
  /\ \A k \in 1..Len(frames) : Len(frames[k].Defers) <= MaxAttach
  /\ LET r == readDefersIter(frames, curdefer, fi, gdefer.recs) IN
       /\ frames' = r.frames
       /\ curdefer' = r.curdefer
       /\ fi' = r.i
       /\ phase' = IF ~r.returned THEN phase
                   ELSE IF phase = "rd_loop" THEN "rd_done" ELSE "rd_done2"
  /\ UNCHANGED gdefer
  /\ UNCHANGED traceVars

DefersNext == ReadDefersCall \/ ReadDefersStep

SpecDefers == InitDefers /\ [][DefersNext]_vars

\* ------------------------------------------------ range-over-func stacks

\* Function.extra(bi).rangeParent: main.f-range1 and main.f-range2 are the
\* bodies of the range-over-func statements of main.f, main.h is such a body
\* inlined (through the iterator function main.g) into main.f
rangeParent(fn) ==
  IF fn.Name \in {"main.f-range1", "main.f-range2", "main.h"}
    THEN PCToFunc(1016) ELSE NoFn

\* rangeFuncStackTrace, lines 982-984
optimized(fn) == image = "rangeopt"

\* Stackframe.contains
contains(frame, off) ==
  frame.Regs.SP < off + frame.stackHi /\ off + frame.stackHi <= frame.Regs.CFA

\* closurePtrOk, lines 1005-1018: the funcval addresses of the range bodies
\* in scope in fr, the closures of main.f being at address 200
yields(fr) == IF fr.Current.Fn.Name = "main.f" THEN {200} ELSE {}

\* closurePtrOk without the containment / funcval-address check
closurePtrOkNoCheck(l, fs, fr) == ~fr.SystemStack

\* closurePtrOk, fs being the frames slice
closurePtrOk(l, fs, fr) ==
  IF fr.SystemStack THEN FALSE
  ELSE IF (l.closurePtr = 0 /\ optimized(fr.Call.Fn)) \/ fs[Len(fs)].Inlined THEN TRUE
  ELSE IF l.closurePtr < 0 THEN contains(fr, l.closurePtr)
  ELSE l.closurePtr \in yields(fr)

\* what the callback gives: the locals, the frames slice, the returned boolean
CbRes(l, fs, ret) == [l |-> l, frames |-> fs, ret |-> ret]

\* "frames = nil; addRetFrame = false; stage = doneStage; return false"
stopRangeFunc(l) ==
  CbRes([l EXCEPT !.addRetFrame = FALSE, !.stage = "doneStage"], << >>, FALSE)

\* appendFrame
appendFrame(l, fs, fr) ==
  CbRes([l EXCEPT !.closurePtr = IF fr.closurePtr # 0 THEN fr.closurePtr ELSE @,
                  !.addRetFrame = TRUE],
        Append(fs, fr), TRUE)

\* rangeFuncStart without the test of closurePtr
rangeFuncStartNoClosureTest(a, fr) ==
  IF rangeParent(fr.Call.Fn) = NoFn
    THEN stopRangeFunc([a.l EXCEPT !.rangeParent = rangeParent(fr.Call.Fn)])
    ELSE CbRes([a.l EXCEPT !.rangeParent = rangeParent(fr.Call.Fn),
                           !.stage = "normalStage"], a.frames, TRUE)

\* the callback, lines 1047-1063: startStage, a being what appendFrame gave
rangeFuncStart(a, fr) ==
  IF \/ rangeParent(fr.Call.Fn) = NoFn
     \/ (~optimized(fr.Call.Fn) /\ ~fr.Inlined /\ a.l.closurePtr = 0)
    THEN stopRangeFunc([a.l EXCEPT !.rangeParent = rangeParent(fr.Call.Fn)])
    ELSE CbRes([a.l EXCEPT !.rangeParent = rangeParent(fr.Call.Fn),
                           !.stage = "normalStage"], a.frames, TRUE)

\* the callback, lines 1068-1075: a body of the same statement, a being what
\* appendFrame gave
rangeFuncBody(a, fr) ==
  IF ~optimized(fr.Call.Fn) /\ a.l.closurePtr = 0 THEN stopRangeFunc(a.l) ELSE a

\* the callback, lines 1046-1089: the switch on stage
rangeFuncStage(l, fs, fr) ==
  CASE l.stage = "startStage" -> rangeFuncStart(appendFrame(l, fs, fr), fr)
    [] l.stage = "normalStage" ->
         IF fr.Call.Fn.offset = l.rangeParent.offset /\ closurePtrOk(l, fs, fr)
           THEN CbRes([l EXCEPT !.stage = "lastFrameStage"], Append(fs, fr), TRUE)
         ELSE IF rangeParent(fr.Call.Fn) = l.rangeParent /\ closurePtrOk(l, fs, fr)
           THEN rangeFuncBody(appendFrame(l, fs, fr), fr)
         ELSE IF fs[Len(fs)].Inlined /\ ~fr.Inlined /\ l.closurePtr = 0
           THEN stopRangeFunc(l)
         ELSE CbRes(l, fs, TRUE)
    [] l.stage = "lastFrameStage" ->
         CbRes([l EXCEPT !.stage = "doneStage"], Append(fs, fr), FALSE)
    [] OTHER -> CbRes(l, fs, FALSE)

\* the callback, lines 1035-1046: a frame without function stops the walk
\* when it comes first and is passed over otherwise
rangeFuncRetFrame(l, fs, fr) ==
  IF fr.Call.Fn = NoFn
    THEN IF l.stage = "startStage" THEN stopRangeFunc(l) ELSE CbRes(l, fs, TRUE)
    ELSE rangeFuncStage(l, fs, fr)

\* DwarfRegisters.SP(): 0 for an absent register
RegsSP(regs) == IF regs.SP = NoReg THEN 0 ELSE regs.SP

\* the callback rangeFuncStackTrace passes to stacktraceFunc, lines 1022-1033:
\* the test of SP, and the frame after a range body, which is its return frame
rangeFuncCallback(l, fs, fr) ==
  IF Len(fs) > 0 /\ RegsSP(fr.Regs) < RegsSP(fs[Len(fs)].Regs)
    THEN CbRes([l EXCEPT !.nonMonotonicSP = TRUE], fs, FALSE)
  ELSE IF l.addRetFrame
    THEN rangeFuncRetFrame([l EXCEPT !.addRetFrame = FALSE], Append(fs, fr), fr)
    ELSE rangeFuncRetFrame(l, fs, fr)

RECURSIVE rangeFuncCallbacks(_, _, _)
\* appendInlineCalls with that callback on the frames out[k..]: the callback
\* is called on every one of them, the result of the last call is returned
rangeFuncCallbacks(r, out, k) ==
  IF k > Len(out) THEN r
  ELSE rangeFuncCallbacks(rangeFuncCallback(r.l, r.frames, out[k]), out, k + 1)

\* the goroutines rangeFuncStackTrace is called with: one stopped in main.f,
\* in a function inlined into it, in a range body of it or outside of every
\* function, without and with a frame pointer in BP, one whose thread runs a
\* range body on the system stack, and nil
RangeIterators ==
  { goroutineStackIterator(TRUE, Goroutine(1024, TRUE, FALSE),
                           ThreadRegs(pc, GStackLo, 1004), MkOpts(FALSE, TRUE, FALSE)) :
      pc \in {900, 1004, 1018, 1020, 1024, 1376, 1392} }
  \cup
  { goroutineStackIterator(TRUE, Goroutine(1024, TRUE, FALSE),
                           [ThreadRegs(1376, GStackLo, 1004) EXCEPT !.BP = GStackLo + 16],
                           MkOpts(FALSE, TRUE, FALSE)) }
  \cup
  { goroutineStackIterator(TRUE, Goroutine(1024, TRUE, TRUE),
                           ThreadRegs(1376, SysStackLo, 1004), MkOpts(FALSE, TRUE, FALSE)) }
  \cup
  { newStackIterator(TRUE, ThreadRegs(1376, SysStackLo, 1004), 0, NoG,
                     MkOpts(FALSE, TRUE, FALSE)) }

InitRangeFunc ==
  /\ image \in RangeImages
  /\ it \in RangeIterators
  /\ created = it
  /\ gdefer \in {h \in RangeFuncHeaps : h.recs[1].sp = h.recs[2].sp /\ h.recs[3].sp = 0}
  /\ curdefer = NoDefer
  /\ fi = 0
  /\ mem = << >>
  /\ depth = 0
  /\ frames = << >>
  /\ phase = "rf_start"
  /\ result = [frames |-> << >>, err |-> NoErr]
  /\ rf = RangeFuncLocals

\* rangeFuncStackTrace up to the loop of stacktraceFunc
RangeFuncCall ==
  /\ phase = "rf_start"
  /\ phase' = IF it.g = NoG THEN "rf_done" ELSE "rf_walk"
  /\ UNCHANGED << created, it, mem, image, depth, frames, result, gdefer, curdefer, fi, rf >>

\* the body of the loop of stacktraceFunc: f is the iterator after it.Frame(),
\* a what appendInlineCalls passed to the callback, r what the callbacks gave
RangeFuncFrames(f, a, r) ==
  /\ it' = [f EXCEPT !.count = a.count]
  /\ frames' = r.frames
  /\ rf' = [r.l EXCEPT !.delivered = @ \o a.out]
  /\ phase' = IF r.ret THEN "rf_walk" ELSE "rf_after"

RangeFuncFrame(f, a) ==
  RangeFuncFrames(f, a, rangeFuncCallbacks(CbRes(rf, frames, TRUE), a.out, 1))

\* n is what it.Next() gave
RangeFuncNext(n) ==
  IF n.panic
    THEN /\ it' = n.it
         /\ UNCHANGED << frames, rf >>
         /\ phase' = "panic"
    ELSE RangeFuncFrame(Frame(n.it), appendInlineCalls(Frame(n.it), Frame(n.it).frame))

\* one iteration of the loop of stacktraceFunc in which Next returns true
RangeFuncDeliver ==
  /\ phase = "rf_walk"
  /\ it.err = NoErr /\ ~it.atend
  /\ Len(rf.delivered) < MaxWalk
  /\ \E m1 \in Decide(mem, Stage1Addrs(it)) :
     \E m \in Decide(m1, Stage2Addrs(it, m1)) :
     \E sig \in SigContexts(it) :
       /\ mem' = m
       /\ RangeFuncNext(Next(it, m, sig))
  /\ UNCHANGED << created, image, depth, result, gdefer, curdefer, fi >>

\* the call of it.Next() that returns false and ends the loop
RangeFuncEndOfWalk ==
  /\ phase = "rf_walk"
  /\ it.err # NoErr \/ it.atend
  /\ phase' = "rf_after"
  /\ UNCHANGED << created, it, mem, image, depth, frames, result, gdefer, curdefer, fi, rf >>

\* rangeFuncErr without the test of nonMonotonicSP
rangeFuncErrNoSP(i, l, fs) ==
  IF i.err # NoErr THEN i.err
  ELSE IF l.stage # "doneStage"
    THEN "could not find range-over-func closure parent on the stack"
  ELSE IF Len(fs) % 2 # 0 THEN "incomplete range-over-func stacktrace"
  ELSE NoErr

\* rangeFuncStackTrace, lines 1092-1102: the error it returns after the walk
rangeFuncErr(i, l, fs) ==
  IF i.err # NoErr THEN i.err
  ELSE IF l.nonMonotonicSP THEN "corrupted stack (SP not monotonically decreasing)"
  ELSE IF l.stage # "doneStage"
    THEN "could not find range-over-func closure parent on the stack"
  ELSE IF Len(fs) % 2 # 0 THEN "incomplete range-over-func stacktrace"
  ELSE NoErr

\* rangeFuncStackTrace after the walk: it returns an error and no frame, or
\* goes on to g.readDefers(frames) and returns the frames
RangeFuncCheck ==
  /\ phase = "rf_after"
  /\ IF rangeFuncErr(it, rf, frames) # NoErr
       THEN /\ result' = [frames |-> << >>, err |-> rangeFuncErr(it, rf, frames)]
            /\ phase' = "rf_done"
       ELSE /\ result' = [frames |-> frames, err |-> NoErr]
            /\ phase' = "rd_start"
  /\ UNCHANGED << created, it, mem, image, depth, frames, gdefer, curdefer, fi, rf >>

RangeFuncStackTraceNext ==
  \/ RangeFuncCall \/ RangeFuncDeliver \/ RangeFuncEndOfWalk \/ RangeFuncCheck
  \/ ReadDefersCall \/ ReadDefersStep

SpecRangeFunc == InitRangeFunc /\ [][RangeFuncStackTraceNext]_vars

\* --------------------------------------------------------------- properties

\* the frames of a list that are not the terminal error frame
Delivered(fs) == {k \in 1..Len(fs) : fs[k].Err = NoErr}

\* the index of the physical frame delivered last before fs[k], 0 when fs[k]
\* follows no physical frame
PrevPhysical(fs, k) ==
  IF \E j \in 1..(k - 1) : ~fs[j].Inlined
    THEN CHOOSE j \in 1..(k - 1) :
           ~fs[j].Inlined /\ \A h \in (j + 1)..(k - 1) : fs[h].Inlined
    ELSE 0

\* the trace ended at line 285 of Next: the frame's return address is 0 and
\* no stack switch ended the trace before
EndedByZeroRet ==
  /\ it.atend
  /\ it.frame.Ret <= 0
  /\ \/ it.opts.StacktraceSimple
     \/ it.frame.Current.Fn = NoFn
     \/ it.frame.Current.Fn.Name
          \notin {"runtime.goexit", "runtime.rt0_go", "runtime.mcall"}

\* the PC a trace starts from: the saved PC of g when StacktraceG asks for
\* it, the PC of the registers the iterator was created with otherwise
StartPC ==
  IF created.opts.StacktraceG /\ created.g # NoG THEN created.g.PC ELSE created.pc

\* C1: for every depth >= 0 and every target stack, stacktrace(depth)
\* returns at most depth+1 frames, not counting a terminal frame that
\* carries only Err.
C1_AtMostDepthPlusOne ==
  (phase = "done" /\ depth >= 0) =>
    Cardinality(Delivered(result.frames)) <= depth + 1

\* C2: a trace requested with depth = 0 returns exactly one frame, whatever
\* the shape of the stack (the terminal error frame is not counted).
C2_DepthZeroOneFrame ==
  (phase = "done" /\ depth = 0 /\ result.err = NoErr) =>
    Cardinality(Delivered(result.frames)) = 1

\* C3: the inline frames generated for a physical frame F are delivered
\* immediately before F, inline ancestors first and F last; each of them has
\* Inlined set and the Current, Regs, Ret and stackHi of F, and F has
\* hasInlines set when there is at least one of them.
C3_InlineBeforePhysical ==
  \A k \in 1..Len(frames) :
    frames[k].Inlined =>
      /\ k < Len(frames)
      /\ frames[k + 1].Current = frames[k].Current
      /\ frames[k + 1].Regs = frames[k].Regs
      /\ frames[k + 1].Ret = frames[k].Ret
      /\ frames[k + 1].stackHi = frames[k].stackHi
      /\ frames[k + 1].Err = NoErr
      /\ frames[k + 1].Inlined \/ frames[k + 1].hasInlines

\* two inlined calls delivered before their physical frame
C3_Witness ==
  \E k \in 1..Len(frames) :
    /\ k + 2 <= Len(frames)
    /\ frames[k].Inlined /\ frames[k + 1].Inlined
    /\ ~frames[k + 2].Inlined /\ frames[k + 2].hasInlines
    /\ frames[k].Call.Fn.Name = "main.h" /\ frames[k + 1].Call.Fn.Name = "main.g"
    /\ frames[k + 2].Call.Fn.Name = "main.f"
    /\ frames[k + 2].Ret # 0

\* C4: stacktrace reports a trace-level error by appending one terminal
\* frame: at most one returned frame has Err set, it is the last one and
\* its other fields are zero; a non-nil error is returned, without frames,
\* only when no frame was collected.
C4_TerminalErrFrame ==
  phase = "done" =>
    /\ \A k \in 1..Len(result.frames) :
         result.frames[k].Err # NoErr =>
           /\ k = Len(result.frames)
           /\ result.frames[k] = [ZeroFrame EXCEPT !.Err = result.frames[k].Err]
    /\ result.err # NoErr => (Len(result.frames) = 0 /\ Len(frames) = 0)
    /\ (it.err # NoErr /\ Len(frames) > 0) =>
         /\ Len(result.frames) > 0
         /\ result.frames[Len(result.frames)].Err = it.err

\* a partial trace: two frames and the terminal error frame
C4_Witness ==
  /\ phase = "done"
  /\ Len(result.frames) = 3
  /\ result.frames[1].Err = NoErr /\ result.frames[2].Err = NoErr
  /\ result.frames[3].Err # NoErr

\* C5 as stated: a trace that terminates because the return address computed
\* for a frame is 0 ends with that frame delivered with Bottom = true, and
\* the returned trace contains no frame carrying Err.
C5_ZeroRetNoErr ==
  (phase = "done" /\ EndedByZeroRet) =>
    /\ Len(result.frames) > 0
    /\ result.frames[Len(result.frames)].Bottom
    /\ \A k \in 1..Len(result.frames) : result.frames[k].Err = NoErr

\* C5, amended: a trace that terminates because the return address computed
\* for a frame is 0 delivers that frame with Bottom = true as its last
\* frame without Err; the returned trace holds no Err frame unless it.err is
\* set when stacktrace returns (the rule of the return address failed in the
\* same step), and then exactly one Err frame follows the Bottom frame.
C5_ZeroRetBottom ==
  (phase = "done" /\ EndedByZeroRet) =>
    LET fs == result.frames
        n == Len(fs)
        last == IF it.err = NoErr THEN n ELSE n - 1
    IN /\ last >= 1
       /\ fs[last].Bottom
       /\ fs[last].Current = it.frame.Current
       /\ fs[last].Ret = it.frame.Ret
       /\ \A k \in 1..last : fs[k].Err = NoErr
       /\ \A k \in 1..(last - 1) : ~fs[k].Bottom
       /\ it.err # NoErr => fs[n].Err = it.err

\* main.f returned to main.main, whose return address is 0
C5_Witness ==
  /\ phase = "done" /\ EndedByZeroRet /\ it.err = NoErr
  /\ Len(result.frames) >= 2
  /\ result.frames[Len(result.frames)].Bottom
  /\ result.frames[Len(result.frames)].Current.Fn.Name = "main.main"

\* C6 as stated: the first frame of every trace that returns frames has
\* Current.PC = Call.PC = the PC the iterator was created with, and
\* Call.File/Line are what PCToLine gives for that PC.
C6_FirstFrameCreatedPC ==
  (phase = "done" /\ Len(result.frames) > 0) =>
    /\ result.frames[1].Current.PC = created.pc
    /\ result.frames[1].Call.PC = created.pc
    /\ result.frames[1].Call.File = PCToLine(created.pc).File
    /\ result.frames[1].Call.Line = PCToLine(created.pc).Line

\* C6, amended: the first frame of every trace that returns frames has
\* Current.PC = Call.PC = the PC the trace starts from (g.PC when StacktraceG
\* is set and g is not nil, the PC the iterator was created with otherwise),
\* and Call.File/Line are what PCToLine gives for that PC, "?" and -1 when no
\* function covers it; when the CFA at that PC is undefined the first frame
\* is the zero Stackframe instead (no field set but, possibly, Bottom),
\* followed by the frame that carries NullAddrError.
C6_FirstFrameStartPC ==
  (phase = "done" /\ Len(result.frames) > 0) =>
    \/ /\ result.frames[1].Current.PC = StartPC
       /\ result.frames[1].Call.PC = StartPC
       /\ result.frames[1].Call.File =
            (IF PCToFunc(StartPC) = NoFn THEN "?" ELSE PCToLine(StartPC).File)
       /\ result.frames[1].Call.Line =
            (IF PCToFunc(StartPC) = NoFn THEN -1 ELSE PCToLine(StartPC).Line)
    \/ /\ [result.frames[1] EXCEPT !.Bottom = FALSE] = ZeroFrame
       /\ Len(result.frames) = 2
       /\ result.frames[2].Err = ErrNull

\* a trace with StacktraceG of a goroutine whose thread is stopped elsewhere
C6_Witness ==
  /\ phase = "done"
  /\ created.opts.StacktraceG /\ created.g # NoG /\ created.g.Thread
  /\ created.pc # created.g.PC
  /\ Len(result.frames) >= 2
  /\ result.frames[1].Current.PC = created.g.PC

\* C7: every delivered non-inlined frame other than the first, whose
\* function is known, whose PC is not the entry of the function, whose
\* function is not runtime.mstart or runtime.systemstack_switch and which
\* does not follow a runtime.sigpanic frame, has lastpc = Current.PC - 1 and
\* Call.File/Line from the line table at (Entry, PC - 1), whichever way the
\* iterator reached it.
C7_CallSiteOfReturnAddress ==
  \A k \in Delivered(frames) :
    LET F == frames[k]
        p == PrevPhysical(frames, k)
    IN (/\ ~F.Inlined
        /\ p # 0
        /\ F.Current.Fn # NoFn
        /\ F.Current.PC # F.Current.Fn.Entry
        /\ F.Current.Fn.Name \notin {"runtime.mstart", "runtime.systemstack_switch"}
        /\ ~(frames[p].Current.Fn # NoFn
             /\ frames[p].Current.Fn.Name = "runtime.sigpanic"))
       => /\ F.lastpc = F.Current.PC - 1
          /\ F.Call.File = LineInfoPCToLine(F.Current.Fn, F.Current.PC - 1).File
          /\ F.Call.Line = LineInfoPCToLine(F.Current.Fn, F.Current.PC - 1).Line

\* C8: every delivered frame that does not carry Err, physical or inlined,
\* has Call.PC = Current.PC.
C8_CallPCIsCurrentPC ==
  \A k \in Delivered(frames) : frames[k].Call.PC = frames[k].Current.PC

\* an inlined call of a frame reached through a return address: the line is
\* taken at PC - 1, the PC is not
C8_Witness ==
  \E k \in Delivered(frames) :
    /\ k > 1
    /\ frames[k].Inlined
    /\ frames[k].lastpc = frames[k].Current.PC - 1
    /\ frames[k].Call.Line = LineInfoPCToLine(frames[k].Current.Fn, frames[k].lastpc).Line
    /\ frames[k].Call.PC = frames[k].Current.PC

\* C9: with StacktraceSimple no stack switch is attempted: every delivered
\* frame has the SystemStack flag of the first one, and every physical frame
\* after the first is reached from its predecessor's return address and
\* computed caller registers.
C9_SimpleNoSwitch ==
  created.opts.StacktraceSimple =>
    \A k \in Delivered(frames) :
      /\ frames[k].SystemStack = frames[1].SystemStack
      /\ (~frames[k].Inlined /\ PrevPhysical(frames, k) # 0) =>
           /\ frames[k].Current.PC = frames[PrevPhysical(frames, k)].Ret
           /\ frames[k].Regs.SP = frames[PrevPhysical(frames, k)].Regs.CFA

\* C10 as stated: after readDefers every defer D attached to frame i has
\* D.SP < frames[i].Regs.CFA and, unless i is the last frame,
\* D.SP >= frames[i+1].Regs.CFA.
C10_DeferBetweenNextCFA ==
  phase = "rd_done" =>
    \A k \in 1..Len(frames) : \A n \in 1..Len(frames[k].Defers) :
      /\ frames[k].Defers[n].SP < frames[k].Regs.CFA
      /\ k < Len(frames) => frames[k].Defers[n].SP >= frames[k + 1].Regs.CFA

\* C10, amended: whenever readDefers attaches the readable defer under its
\* cursor (or its rangefunc list) to frame i, the defer has
\* SP < frames[i].Regs.CFA and SP >= frames[j].Regs.CFA for every earlier
\* frame j < i that is neither a system-stack frame nor inlined.
C10_DeferBetweenEarlierCFA ==
  [][\A k \in 1..Len(frames) :
       (/\ phase = "rd_loop"
        /\ Len(frames'[k].Defers) > Len(frames[k].Defers)
        /\ curdefer.Unreadable = "")
       => /\ curdefer.SP < frames[k].Regs.CFA
          /\ \A j \in 1..(k - 1) :
               (~frames[j].SystemStack /\ ~frames[j].Inlined) =>
                 curdefer.SP >= frames[j].Regs.CFA]_vars

\* a defer attached to the second frame: its SP is the CFA of the first one
C10_Witness ==
  /\ phase = "rd_done"
  /\ Len(frames) >= 2
  /\ ~frames[1].SystemStack /\ ~frames[1].Inlined
  /\ Len(frames[1].Defers) = 1 /\ frames[1].Defers[1].Unreadable = ""
  /\ Len(frames[2].Defers) = 1 /\ frames[2].Defers[1].Unreadable = ""
  /\ frames[2].Defers[1].SP = frames[1].Regs.CFA
  /\ frames[2].Defers[1].SP < frames[2].Regs.CFA

\* what readDefers appends to the Defers of a frame for the defer d
Attached(d) == IF Len(d.rangefunc) > 0 THEN d.rangefunc ELSE << d >>

\* the frame fr can take the defer d: it is neither a system-stack frame nor
\* inlined and its CFA is strictly greater than d.SP
Eligible(fr, d) == ~fr.SystemStack /\ ~fr.Inlined /\ fr.Regs.CFA > d.SP

AttachedAt(fs) ==
  UNION { { <<k, n>> : n \in 1..Len(fs[k].Defers) } : k \in 1..Len(fs) }

\* position p comes before position q in frame order, then attachment order
Before(p, q) == p[1] < q[1] \/ (p[1] = q[1] /\ p[2] < q[2])

\* C12: taken in frame order and then attachment order, the defers readDefers
\* attaches to frames have non-decreasing SP, except for a defer reported
\* unreadable, also when defers carry rangefunc lists.
C12_NonDecreasingSP ==
  \A p \in AttachedAt(frames) : \A q \in AttachedAt(frames) :
    (/\ Before(p, q)
     /\ frames[p[1]].Defers[p[2]].Unreadable = ""
     /\ frames[q[1]].Defers[q[2]].Unreadable = "")
    => frames[p[1]].Defers[p[2]].SP <= frames[q[1]].Defers[q[2]].SP

\* a returned frame as the callback was called with it, before readDefers
WithoutDefers(fr) == [fr EXCEPT !.Defers = << >>, !.TopmostDefer = NoDefer]

\* the callback was called with b right after it was called with a
DeliveredNext(a, b) ==
  \E k \in 1..(Len(rf.delivered) - 1) :
    rf.delivered[k] = WithoutDefers(a) /\ rf.delivered[k + 1] = WithoutDefers(b)

\* C13: whenever rangeFuncStackTrace returns without error the returned list
\* has even length; when it is not empty its second-to-last frame is the
\* textual enclosing function (Call.Fn.offset is the rangeParent offset of
\* the first frame) and its last frame is the frame delivered right after
\* that one; an odd-length collection is returned as an error with no frames
C13_EvenParentThenNext ==
  /\ (phase = "rd_done" \/ (phase = "rf_done" /\ result.err = NoErr)) =>
       /\ Len(frames) % 2 = 0
       /\ Len(frames) > 0 =>
            /\ frames[Len(frames) - 1].Call.Fn.offset = rangeParent(frames[1].Call.Fn).offset
            /\ DeliveredNext(frames[Len(frames) - 1], frames[Len(frames)])
  /\ (phase = "rf_done" /\ Len(frames) % 2 = 1) =>
       result.err # NoErr /\ result.frames = << >>

\* the CFA rule evaluates to nothing on the first frame of an iterator with a
\* live goroutine, started on the system stack at the PC of its thread,
\* without StacktraceSimple
UndefinedCFAOnSystemStack ==
  /\ created.g # NoG /\ created.systemstack
  /\ ~created.opts.StacktraceSimple /\ ~created.opts.StacktraceG
  /\ executeFrameRegRule(created.regs, << >>, "X0", FrameContextAt(created.pc).CFA, 0).reg = NoReg

\* C14: when the CFA rule evaluates to nothing on the very first frame, the
\* iterator has a live goroutine, the first frame is on the system stack and
\* StacktraceSimple is not set, stacktrace restarts from the registers saved
\* in g and delivers the frames of the goroutine: the first frame of the
\* restarted pass is at g.PC with SP = g.SP, BP = g.BP and LR = g.LR
C14_RestartOnUndefinedCFA ==
  (phase = "done" /\ depth >= 0 /\ UndefinedCFAOnSystemStack) =>
    \E k \in 1..Len(result.frames) :
      /\ result.frames[k].Err = NoErr
      /\ result.frames[k].Current.PC = created.g.PC
      /\ result.frames[k].Regs.SP = created.g.SP
      /\ result.frames[k].Regs.BP = created.g.BP
      /\ result.frames[k].Regs.LR = created.g.LR

\* the step of stacktrace that restarts the walk: the second stacktraceFunc
RestartStep == phase = "after1" /\ it' # it

\* C15: stacktrace restarts from the registers of the goroutine at most once
\* per call, and only when the first pass collected exactly one frame, an
\* error is recorded, g is not nil, that frame has SystemStack set and
\* StacktraceSimple is not set; the frames of the restarted pass are appended
\* after that first frame, and the first of them is built as a topmost frame
\* (at g.PC, its lastpc not moved back to the CALL instruction)
C15_RestartOnceAfterOneSystemFrame ==
  [][ /\ RestartStep =>
           /\ Len(frames) = 1 /\ it.err # NoErr /\ it.g # NoG
           /\ frames[1].SystemStack /\ ~it.opts.StacktraceSimple
           /\ frames' = frames
           /\ phase' = "pass2" => it'.top /\ it'.pc = it.g.PC
      /\ phase' = "pass2" => (RestartStep \/ phase = "pass2")
      /\ phase \in {"pass2", "after2", "done"} => ~RestartStep /\ phase' # "pass1"
      /\ phase = "pass2" =>
           /\ Len(frames') >= Len(frames)
           /\ SubSeq(frames', 1, Len(frames)) = frames
           /\ (Len(frames) = 1 /\ Len(frames') > 1) =>
                /\ frames'[2].Current.PC = it.g.PC
                /\ frames'[2].lastpc = it.g.PC
                /\ frames'[2].Regs.SP = it.g.SP
    ]_vars

\* the restart delivered the frames of the goroutine after the one frame of
\* the system stack
C15_Witness ==
  /\ phase = "done" /\ ~created.opts.StacktraceG /\ it.opts.StacktraceG
  /\ Len(result.frames) > 2
  /\ result.frames[1].SystemStack
  /\ result.frames[2].Current.PC = created.g.PC
  /\ ~result.frames[2].SystemStack

\* C16: applying readDefers twice to the same frame list and goroutine gives
\* the assignment one application gives: the Defers and the TopmostDefer of
\* every frame are the same after the second application as after the first
C16_ReadDefersTwice ==
  phase = "rd_done2" =>
    \A k \in 1..Len(frames) :
      /\ frames[k].Defers = result.frames[k].Defers
      /\ frames[k].TopmostDefer = result.frames[k].TopmostDefer

\* the registers readSigtrampgoContext recovers when it succeeds
RecoveredRegs == SigContexts([pc |-> 1120, target |-> TRUE]) \ {SigFail}

\* the iterator i stands on registers recovered from a signal context
AfterHop(i) ==
  /\ i.frame.Current.Fn.Name = "runtime.sigtrampgo"
  /\ i.regs \in RecoveredRegs
  /\ i.err = NoErr /\ ~i.atend

\* C17: when the function of the current frame is runtime.sigtrampgo and the
\* target is not nil, the sigtrampgo frame is delivered; when the signal
\* context was read, the iterator stands on the recovered PC and registers
\* with top cleared, and the next physical frame is built at the recovered
\* PC from the recovered registers as a non-topmost frame (lastpc is the
\* address before the PC), the return address of the trampoline not being
\* followed; when the read failed the iterator is where the stack-switch /
\* return-address path of a frame without readable context leaves it, and
\* it.err is what advanceRegs and that path recorded
C17_SigtrampgoHop ==
  [][ (phase \in {"pass1", "pass2"} /\ frames' # frames) =>
        /\ (it'.frame.Current.Fn.Name = "runtime.sigtrampgo" /\ it.target) =>
             /\ frames'[Len(frames')] = it'.frame
             /\ \/ /\ it'.regs \in RecoveredRegs
                   /\ it'.pc = it'.regs.PC
                   /\ ~it'.top /\ ~it'.atend
                   /\ it'.err = advanceRegs(it, mem').it.err
                \/ /\ it'.regs \notin RecoveredRegs
                   /\ [it' EXCEPT !.count = 0] =
                        [Frame(Next(it, mem', SigFail).it) EXCEPT !.count = 0]
        /\ AfterHop(it) =>
             /\ it'.frame.Current.PC = it.pc
             /\ it'.frame.Regs = [it.regs EXCEPT !.CFA = it'.frame.Regs.CFA]
             /\ it'.frame.lastpc = it.pc - 1
    ]_vars

\* after runtime.sigtrampgo, the frame at the PC of the signal context, on
\* the goroutine stack the context was taken on
C17_Witness ==
  /\ phase = "done" /\ Len(result.frames) >= 2
  /\ result.frames[1].Current.Fn.Name = "runtime.sigtrampgo"
  /\ result.frames[1].SystemStack
  /\ result.frames[1].Ret # 1004
  /\ result.frames[2].Current.PC = 1004
  /\ result.frames[2].Regs.SP = GStackLo + 8
  /\ result.frames[2].lastpc = 1003
  /\ ~result.frames[2].SystemStack

\* what the CFA rule of the frame context at i.pc evaluates to
CFAOf(i, m) == executeFrameRegRule(i.regs, m, "X0", FrameContextAt(i.pc).CFA, 0)

\* what the rule of register r of that frame context evaluates to
RegRuleOf(i, m, r) ==
  executeFrameRegRule([i.regs EXCEPT !.CFA = CFAOf(i, m).reg], m, r,
                      FrameContextAt(i.pc).Regs[r], CFAOf(i, m).reg)

\* the registers of that frame context whose rule fails with an error
FailedRegs(i, m) ==
  IF CFAOf(i, m).reg = NoReg THEN {}
  ELSE {r \in DOMAIN FrameContextAt(i.pc).Regs : RegRuleOf(i, m, r).err # NoErr}

\* a step of the walk in which Next builds a frame
NextStep == phase \in {"pass1", "pass2"} /\ frames' # frames

\* C18 as stated: whenever the CFA rule or the rule of any register of the
\* frame context fails, the iterator records that error in it.err and
\* delivers no frame beyond the current one
C18_AnyRuleFailureRecorded ==
  [][ /\ (NextStep /\ CFAOf(it, mem').reg = NoReg) => it'.err # NoErr
      /\ (NextStep /\ FailedRegs(it, mem') # {}) =>
            \E r \in FailedRegs(it, mem') : it'.err = RegRuleOf(it, mem', r).err
      /\ (phase \in {"pass1", "pass2"} /\ it.err # NoErr) => frames' = frames
    ]_vars

\* the rule of the return address register of the frame context at i.pc
\* gives no register
RetAddrRuleFails(i, m) ==
  /\ CFAOf(i, m).reg # NoReg
  /\ FrameContextAt(i.pc).RetAddrReg \in DOMAIN FrameContextAt(i.pc).Regs
  /\ RegRuleOf(i, m, FrameContextAt(i.pc).RetAddrReg).reg = NoReg

\* C18, amended: when the CFA rule evaluates to nothing the iterator records
\* an error; when the rule of the return address register gives no register
\* it records the error of that rule ("Undefined return address" when the
\* rule gave none), which only the error of a failed switch to the goroutine
\* stack in the same call replaces; the failure of the rule of any other register is not
\* recorded, the register is absent from the caller's registers; once it.err
\* is set the walk delivers no frame beyond the current one
C18_RetAddrRuleFailureRecorded ==
  [][ /\ (NextStep /\ CFAOf(it, mem').reg = NoReg) => it'.err = ErrNull
      /\ (NextStep /\ RetAddrRuleFails(it, mem')) =>
            \/ it'.err = IF RegRuleOf(it, mem', FrameContextAt(it.pc).RetAddrReg).err = NoErr
                           THEN ErrRet
                           ELSE RegRuleOf(it, mem', FrameContextAt(it.pc).RetAddrReg).err
            \/ ~it.opts.StacktraceSimple /\ it'.err \in {ErrNilG, ErrLRNil}
      /\ (NextStep /\ CFAOf(it, mem').reg # NoReg /\ ~RetAddrRuleFails(it, mem')) =>
            it'.err \in {NoErr, ErrMem, ErrNilG, ErrLRNil}
      /\ (phase \in {"pass1", "pass2"} /\ it.err # NoErr) => frames' = frames
    ]_vars

\* a trace that ended on the failed rule of a return address register: the
\* error is the last frame and one frame was delivered before it
C18_Witness ==
  /\ phase = "done"
  /\ Len(result.frames) = 2
  /\ result.frames[2].Err \in {ErrArch, ErrMem}
  /\ result.frames[1].Err = NoErr

\* a call of Next that does the work of lines 247-248 and computes 0 as the
\* address of the return address slot
NullRetAddrStep ==
  /\ phase \in {"pass1", "pass2"}
  /\ it.err = NoErr /\ ~it.atend
  /\ mem' # mem \/ it' # it \/ frames' # frames \/ phase' # phase
  /\ advanceRegs(it, mem').retaddr = 0

\* C19: when the address of the return address slot is 0 the iterator
\* records NullAddrError and no frame is delivered, neither for that step
\* nor for any later step
C19_NullAddrDeliversNoFrame ==
  [][ /\ NullRetAddrStep => (it'.err = ErrNull /\ frames' = frames)
      /\ (phase \in {"pass1", "pass2"} /\ it.err = ErrNull) => frames' = frames
    ]_vars

\* a physical frame of one of the "top of stack" functions of the runtime
TopOfStackFrame(f) ==
  /\ f.Current.Fn # NoFn
  /\ f.Current.Fn.Name \in {"runtime.goexit", "runtime.rt0_go"}
  /\ ~f.Inlined

\* C20: without StacktraceSimple a frame of runtime.goexit or runtime.rt0_go
\* is delivered with Bottom set and no physical frame is delivered after it
\* (the frame that carries the error of the trace is not a physical frame)
C20_GoexitEndsTrace ==
  ~it.opts.StacktraceSimple =>
    \A k \in 1..Len(frames) :
      TopOfStackFrame(frames[k]) =>
        /\ frames[k].Bottom
        /\ \A j \in (k + 1)..Len(frames) : frames[j].Err # NoErr

\* a finished trace without StacktraceSimple whose last physical frame, not
\* the first of the trace, is a frame of runtime.goexit or runtime.rt0_go
\* with a return address
C20_Witness ==
  /\ phase = "done"
  /\ ~it.opts.StacktraceSimple
  /\ \E k \in 2..Len(frames) :
       /\ TopOfStackFrame(frames[k])
       /\ frames[k].Ret > 0
       /\ frames[k].Bottom

\* a call of Next that goes beyond line 229 and returns
DeliverStep ==
  /\ phase \in {"pass1", "pass2"}
  /\ it.err = NoErr /\ ~it.atend
  /\ mem' # mem \/ it' # it \/ frames' # frames \/ phase' # phase
  /\ phase' # "panic"

\* the iterator Next hands to the stack switch of lines 277-282: a is what
\* advanceRegs gave
SwitchInputOf(a, m) ==
  [newStackframe(a.it, a.ret, a.retaddr, m).it EXCEPT
     !.frame = newStackframe(a.it, a.ret, a.retaddr, m).frame]

SwitchInput(i, m) == SwitchInputOf(advanceRegs(i, m), m)

\* the stack switch of Next is a call of switchToGoroutineStack
SwitchTried(i, m) ==
  /\ ~i.opts.StacktraceSimple
  /\ ~(/\ SwitchInput(i, m).frame.Current.Fn # NoFn
       /\ SwitchInput(i, m).frame.Current.Fn.Name = "runtime.sigtrampgo")
  /\ arm64SwitchStack(SwitchInput(i, m), advanceRegs(i, m).callFrameRegs, m)
       = SwitchOrFail(SwitchInput(i, m), advanceRegs(i, m).callFrameRegs)

\* the registers of the iterator are the saved registers of its goroutine
OnGoroutineRegs(i, g) ==
  /\ i.pc = g.PC
  /\ i.regs.SP = g.SP
  /\ i.regs.BP = g.BP
  /\ usesLR => i.regs.LR = g.LR
  /\ ~i.systemstack

\* C21: a successful switch to the goroutine stack sets pc, SP, BP and LR
\* from g and clears systemstack and top (stacktraceFunc sets top again
\* after its own switch); a failed switch records its error in it.err and
\* no frame is delivered after the current one
C21_SwitchToGoroutineStack ==
  [][ /\ (DeliverStep /\ SwitchTried(it, mem')
            /\ switchToGoroutineStack(SwitchInput(it, mem')).err = NoErr) =>
          /\ OnGoroutineRegs(it', it.g)
          /\ ~it'.top
          /\ it'.err = SwitchInput(it, mem').err
      /\ (DeliverStep /\ SwitchTried(it, mem')
            /\ switchToGoroutineStack(SwitchInput(it, mem')).err # NoErr) =>
          /\ it'.err = switchToGoroutineStack(SwitchInput(it, mem')).err
          /\ Len(frames') > Len(frames)
      /\ (phase \in {"start", "after1"} /\ phase' \in {"pass1", "pass2"}
            /\ it'.opts.StacktraceG /\ it.g # NoG) =>
          /\ OnGoroutineRegs(it', it.g)
          /\ it'.top
      /\ (phase \in {"start", "after1"} /\ it' # it /\ phase' \in {"after1", "after2"}) =>
          /\ it'.err \in {ErrLRNil, ErrNilG}
          /\ frames' = frames
      /\ (phase \in {"pass1", "pass2"} /\ it.err \in {ErrLRNil, ErrNilG}) =>
          frames' = frames
    ]_vars

\* a walk that has just left the system stack from a frame of runtime.mcall,
\* runtime.systemstack or runtime.newstack and goes on from g's registers
C21_Witness ==
  /\ phase \in {"pass1", "pass2"}
  /\ it.err = NoErr
  /\ Len(frames) >= 1
  /\ frames[Len(frames)].SystemStack
  /\ frames[Len(frames)].Current.Fn.Name
       \in {"runtime.mcall", "runtime.systemstack", "runtime.newstack"}
  /\ OnGoroutineRegs(it, it.g)
  /\ it.regs.BP # frames[Len(frames)].Regs.BP
  /\ ~it.top

CgoCallbacks == {"runtime.cgocallback", "runtime.cgocallback_gofunc"}

\* the frame Next has just built is a non-topmost frame of the goroutine
\* stack that is, or returns into, runtime.cgocallback
CgoCallIn(s) ==
  /\ ~s.top /\ ~s.systemstack
  /\ s.frame.Current.Fn # NoFn
  /\ \/ s.frame.Current.Fn.Name \in CgoCallbacks
     \/ PCToFunc(s.frame.Ret).Name \in CgoCallbacks

\* g0.sched.sp as the iterator has it cached once loadG0SchedSP was called
CachedG0SchedSP(i) == loadG0SchedSP(i).g0_sched_sp

\* the registers the walk continues from after the hop: for a frame of
\* runtime.cgocallback the frame found at g0.sched.sp is unwound first
HopRegsOK(s, i2, m) ==
  IF s.frame.Current.Fn.Name \in CgoCallbacks
    THEN /\ i2.regs.SP = CachedG0SchedSP(s) + 16
         /\ i2.pc \in {ReadRaw(m, CachedG0SchedSP(s) + 8), s.regs.LR}
    ELSE /\ i2.regs.SP = CachedG0SchedSP(s)
         /\ i2.pc = s.frame.Ret

\* C22: a non-topmost goroutine-stack frame that is, or returns into,
\* runtime.cgocallback makes the walk continue on the system stack from
\* SP = the cached g0.sched.sp when that is not zero; the cache is refreshed
\* from the save slot at that SP; frames built while the iterator is on the
\* system stack have SystemStack set; g0.sched.sp is taken from g0 at most
\* once; no hop happens when the cache is zero
C22_CgoCallbackHop ==
  [][ /\ (DeliverStep /\ CgoCallIn(SwitchInput(it, mem'))
            /\ it'.g0_sched_sp_loaded
            /\ CachedG0SchedSP(SwitchInput(it, mem')) > 0) =>
          /\ it'.systemstack
          /\ HopRegsOK(SwitchInput(it, mem'), it', mem')
          /\ it'.g0_sched_sp =
               ReadRaw(mem', CachedG0SchedSP(SwitchInput(it, mem'))
                              + prevG0schedSPOffsetSaveSlot)
      /\ (DeliverStep /\ CgoCallIn(SwitchInput(it, mem'))
            /\ CachedG0SchedSP(SwitchInput(it, mem')) = 0) =>
          /\ ~it'.systemstack
          /\ it'.g0_sched_sp = 0
      /\ (DeliverStep /\ it.systemstack /\ advanceRegs(it, mem').retaddr # 0) =>
          \A k \in (Len(frames) + 1)..Len(frames') : frames'[k].SystemStack
      /\ it.g0_sched_sp_loaded =>
          /\ it'.g0_sched_sp_loaded
          /\ \/ it'.g0_sched_sp = it.g0_sched_sp
             \/ /\ it.g0_sched_sp + prevG0schedSPOffsetSaveSlot \in DOMAIN mem'
                /\ it'.g0_sched_sp = mem'[it.g0_sched_sp + prevG0schedSPOffsetSaveSlot]
             \/ /\ it.g0_sched_sp + prevG0schedSPOffsetSaveSlot \notin Mapped
                /\ it'.g0_sched_sp = 0
    ]_vars

\* a walk that started on the goroutine stack, hopped on a return into
\* runtime.cgocallback and delivered a frame found at g0.sched.sp
C22_Witness ==
  /\ it.g # NoG /\ it.g.g0sp > 0
  /\ it.g0_sched_sp_loaded
  /\ Len(frames) >= 2
  /\ ~frames[1].SystemStack
  /\ frames[2].SystemStack
  /\ frames[2].Current.Fn.Name \in CgoCallbacks
  /\ frames[2].Regs.SP = it.g.g0sp

\* C23: the rangefunc list of every defer loaded by Defer.load(true) (the
\* defer under the cursor of readDefers) holds at most maxRangeFuncDefers
\* entries, whatever the list in target memory
C23_RangeFuncListCap ==
  Len(curdefer.rangefunc) <= maxRangeFuncDefers

\* the cursor of readDefers is on an unreadable defer and on a frame
UnreadableUnderCursor ==
  /\ phase \in {"rd_loop", "rd_loop2"}
  /\ curdefer # NoDefer /\ fi < Len(frames)
  /\ curdefer.Unreadable # ""
  /\ frames' # frames \/ phase' # phase

\* a frame that is not an error frame, not a system-stack frame and not an
\* inlined frame
UsableFrame(f) == f.Err = NoErr /\ ~f.SystemStack /\ ~f.Inlined

\* the frames after curdefer was appended to the Defers of frame k only
AttachedOnlyTo(k) ==
  /\ k \in 1..Len(frames)
  /\ frames' = [frames EXCEPT ![k].Defers = Append(@, curdefer)]

\* C24: an unreadable defer under the cursor of readDefers is attached to
\* exactly one frame, the first usable frame not yet passed by the walk, and
\* readDefers returns
C24_UnreadableToFirstUsable ==
  [][UnreadableUnderCursor =>
       /\ \E k \in (fi + 1)..Len(frames) :
            /\ UsableFrame(frames[k])
            /\ \A j \in (fi + 1)..(k - 1) : ~UsableFrame(frames[j])
            /\ AttachedOnlyTo(k)
       /\ phase' \in {"rd_done", "rd_done2"}
    ]_vars

\* C24, amended: an unreadable defer under the cursor of readDefers is
\* attached to exactly one frame, the frame the walk stands on, whatever that
\* frame is, and readDefers returns
C24_UnreadableToCurrentFrame ==
  [][UnreadableUnderCursor =>
       /\ AttachedOnlyTo(fi + 1)
       /\ phase' \in {"rd_done", "rd_done2"}
    ]_vars

\* readDefers returned after it attached the unreadable head of the defer
\* list to the first frame, a system-stack frame followed by a usable one
C24_Witness ==
  /\ phase = "rd_done"
  /\ fi = 0
  /\ curdefer.Unreadable = ErrUnreadableDefer
  /\ Len(frames) >= 2
  /\ frames[1].SystemStack
  /\ frames[1].Defers = << curdefer >>
  /\ UsableFrame(frames[2])
  /\ frames[2].Defers = << >>

\* readDefers has returned
AfterReadDefers == phase \in {"rd_done", "rd_done2"}

\* TopmostDefer, once set, is not assigned again
TopmostSetOnce ==
  \A k \in 1..Len(frames) :
    frames[k].TopmostDefer # NoDefer =>
      frames'[k].TopmostDefer = frames[k].TopmostDefer

\* the first defer of frame k is its TopmostDefer
TopmostIsFirst(fs, k) ==
  fs[k].Defers # << >> =>
    /\ fs[k].TopmostDefer # NoDefer
    /\ fs[k].TopmostDefer = fs[k].Defers[1]

\* the TopmostDefer of frame k is not attached to a frame before k
TopmostNotOfInner(fs, k) ==
  fs[k].TopmostDefer # NoDefer =>
    \A j \in 1..(k - 1) : \A n \in 1..Len(fs[j].Defers) :
      fs[j].Defers[n] # fs[k].TopmostDefer

\* C25: TopmostDefer of a frame is set at most once; after readDefers every
\* frame with defers has its first defer as TopmostDefer, and no frame's
\* TopmostDefer is a defer attached to an earlier frame
C25_TopmostDefer ==
  [][ /\ TopmostSetOnce
      /\ AfterReadDefers' =>
           \A k \in 1..Len(frames') :
             TopmostIsFirst(frames', k) /\ TopmostNotOfInner(frames', k)
    ]_vars

RECURSIVE LinkClosure(_, _, _)
\* the records reached from the records of set by following link, n times
LinkClosure(recs, set, n) ==
  IF n = 0 THEN set
  ELSE LinkClosure(recs,
         set \cup ({recs[a].link : a \in {x \in set : recs[x].readable}} \ {0}),
         n - 1)

\* the records of the g._defer link chain
ChainRecs(gd) ==
  IF gd.head = 0 THEN {} ELSE LinkClosure(gd.recs, {gd.head}, Len(gd.recs))

\* the records of the head lists of the records of the link chain
HeadListRecs(gd) ==
  LinkClosure(gd.recs,
    {gd.recs[a].head : a \in {x \in ChainRecs(gd) : gd.recs[x].readable}} \ {0},
    Len(gd.recs))

\* the head of g._defer cannot be read
HeadUnreadable(gd) == gd.head # 0 /\ ~gd.recs[gd.head].readable

\* C25, amended: TopmostDefer of a frame is set at most once; after
\* readDefers every frame with defers has its first defer as TopmostDefer,
\* except the first frame when it holds the unreadable head of the list,
\* whose TopmostDefer stays nil; when no record of a head list is also on
\* the link chain, no frame's TopmostDefer is a defer attached to an earlier
\* frame
C25_TopmostDeferOfReadable ==
  [][ /\ TopmostSetOnce
      /\ AfterReadDefers' =>
           \A k \in 1..Len(frames') :
             /\ IF k = 1 /\ HeadUnreadable(gdefer)
                  THEN frames'[k].TopmostDefer = NoDefer
                  ELSE TopmostIsFirst(frames', k)
             /\ ChainRecs(gdefer) \cap HeadListRecs(gdefer) = {} =>
                  TopmostNotOfInner(frames', k)
    ]_vars

\* readDefers returned on a list whose second frame has a defer of a
\* range-over-func body as TopmostDefer and first defer, the first frame
\* holding another defer
C25_Witness ==
  /\ phase = "rd_done"
  /\ ChainRecs(gdefer) \cap HeadListRecs(gdefer) = {}
  /\ Len(frames) >= 2
  /\ frames[1].Defers # << >>
  /\ frames[2].Defers # << >>
  /\ frames[2].TopmostDefer = frames[2].Defers[1]
  /\ frames[2].TopmostDefer.addr \in HeadListRecs(gdefer)

errNonMonotonicSP == "corrupted stack (SP not monotonically decreasing)"

\* rangeFuncStackTrace has returned (readDefers included)
RangeFuncReturned ==
  /\ Len(rf.delivered) > 0
  /\ phase \in {"rf_done", "rd_start", "rd_loop", "rd_done", "rd_loop2", "rd_done2"}

\* some frame passed to the callback has SP lower than the frame passed to
\* it immediately before
SPDecreased ==
  \E k \in 1..(Len(rf.delivered) - 1) :
    RegsSP(rf.delivered[k + 1].Regs) < RegsSP(rf.delivered[k].Regs)

\* C26: rangeFuncStackTrace returns no frames and the error "corrupted stack
\* (SP not monotonically decreasing)" whenever a frame delivered by the
\* iterator has SP lower than the frame delivered immediately before it
C26_NonMonotonicSPRejected ==
  (RangeFuncReturned /\ SPDecreased) =>
    /\ result.frames = << >>
    /\ result.err = errNonMonotonicSP

\* the frame that ended the walk has SP lower than the last frame kept
BelowLastKept ==
  /\ Len(frames) > 0
  /\ RegsSP(rf.delivered[Len(rf.delivered)].Regs) < RegsSP(frames[Len(frames)].Regs)

\* C26 (amended): the SP of a delivered frame is compared with the SP of the
\* last frame kept in the result, not with the frame delivered before it; a
\* frame below the last kept frame ends the walk, and rangeFuncStackTrace
\* returns no frames and the iterator's error if it has one, the error
\* "corrupted stack (SP not monotonically decreasing)" otherwise
C26_BelowLastKeptRejected ==
  (RangeFuncReturned /\ BelowLastKept) =>
    /\ result.frames = << >>
    /\ result.err = IF it.err # NoErr THEN it.err ELSE errNonMonotonicSP

C26_Witness ==
  /\ RangeFuncReturned
  /\ BelowLastKept
  /\ it.err = NoErr
  /\ result = [frames |-> << >>, err |-> errNonMonotonicSP]

\* rangeFuncStackTrace has returned, with or without a walk
RangeFuncDone ==
  phase \in {"rf_done", "rd_start", "rd_loop", "rd_done", "rd_loop2", "rd_done2"}

\* the topmost frame is not the body of a range-over-func statement the
\* walk can follow
TopmostNotRangeBody(t) ==
  \/ t.Call.Fn = NoFn
  \/ rangeParent(t.Call.Fn) = NoFn
  \/ (~optimized(t.Call.Fn) /\ ~t.Inlined /\ t.closurePtr = 0)

\* g is nil, or the walk delivered a topmost frame that is no range body
NothingToReturn ==
  \/ created.g = NoG
  \/ Len(rf.delivered) > 0 /\ TopmostNotRangeBody(rf.delivered[1])

RECURSIVE ClosurePtrSeen(_, _)
\* the closure pointer observed in the accepted frames fs[1], fs[3], ... before
\* fs[k]: appendFrame keeps the last non-zero one
ClosurePtrSeen(fs, k) ==
  IF k <= 1 THEN 0
  ELSE IF (k - 1) % 2 = 1 /\ fs[k - 1].closurePtr # 0 THEN fs[k - 1].closurePtr
  ELSE ClosurePtrSeen(fs, k - 1)

\* the frames the closure-pointer check accepted: the result list holds an
\* accepted frame at every odd index and its return frame after it, the first
\* frame being kept without the check
AcceptedAt == {k \in 3..Len(frames) : k % 2 = 1}

\* the stack-allocated closure cp lies in (fr.SP, fr.CFA], or a range-body
\* function local of fr has the funcval address cp
ClosureInFrame(fr, cp) ==
  \/ cp < 0 /\ contains(fr, cp)
  \/ cp >= 0 /\ cp \in yields(fr)

\* C28: the closure-pointer check never accepts a system-stack frame; it
\* accepts a frame without the containment / funcval-address check only when
\* no closure pointer has been observed and the frame is optimized or inlined
C28_ClosurePtrCheck ==
  phase \in {"rf_walk", "rf_after"} =>
    \A k \in AcceptedAt :
      /\ ~frames[k].SystemStack
      /\ \/ ClosurePtrSeen(frames, k) = 0
            /\ (optimized(frames[k].Call.Fn) \/ frames[k].Inlined)
         \/ ClosureInFrame(frames[k], ClosurePtrSeen(frames, k))

\* C28 (amended): the closure-pointer check never accepts a system-stack
\* frame; it accepts a frame without the containment / funcval-address check
\* when no closure pointer has been observed and the frame's function is
\* optimized, and also, whatever closure pointer has been observed, when the
\* last frame kept in the result is inlined; every other accepted frame has
\* the closure in (frame.SP, frame.CFA] or a range-body local with that address
C28_ClosurePtrCheckOfLastKept ==
  phase \in {"rf_walk", "rf_after"} =>
    \A k \in AcceptedAt :
      /\ ~frames[k].SystemStack
      /\ \/ ClosurePtrSeen(frames, k) = 0 /\ optimized(frames[k].Call.Fn)
         \/ frames[k - 1].Inlined
         \/ ClosureInFrame(frames[k], ClosurePtrSeen(frames, k))

C28_Witness ==
  /\ phase \in {"rf_walk", "rf_after"}
  /\ \E k \in AcceptedAt :
       /\ ClosurePtrSeen(frames, k) # 0
       /\ frames[k - 1].Inlined
       /\ ~ClosureInFrame(frames[k], ClosurePtrSeen(frames, k))
  /\ \E k \in AcceptedAt :
       /\ ClosurePtrSeen(frames, k) # 0
       /\ ~frames[k - 1].Inlined
       /\ ClosureInFrame(frames[k], ClosurePtrSeen(frames, k))

\* no FDE covers pc, or pc lies inside runtime.sigreturn
FramePointerPC(pc) == FDEForPC(pc) = NoFDE \/ InFn(pc, "runtime.sigreturn")

\* the physical frame a step of the walk has added to the trace
NewFrame(fs) == fs[Len(fs)]

\* the caller's registers are what the frame-pointer rules give for the
\* frame pointer bp: SP = CFA = bp + 16, the return address register (PC) is
\* the word at CFA - 8 and BP the word at CFA - 16 (a register is absent when
\* its word cannot be read)
FramePointerCaller(regs, bp, m) ==
  /\ regs.SP = bp + 2 * PtrSize
  /\ regs.PC = IF bp + PtrSize \in Mapped THEN m[bp + PtrSize] ELSE NoReg
  /\ regs.BP = IF bp \in Mapped THEN m[bp] ELSE NoReg

\* C29: when no FDE covers pc, or pc lies inside runtime.sigreturn, the frame
\* is unwound through the frame pointer: CFA = BP + 16, the return address
\* register is the word at CFA - 8, caller BP = the word at CFA - 16, caller
\* SP = CFA; when BP is absent the CFA is undefined and the iterator records
\* an error.  The word at CFA - 8 is also the return address of the frame,
\* except where advanceRegs replaces the value of the return address register:
\* a word of 0 (the link register is taken) and a frame reached from
\* runtime.sigpanic (the word at CFA is taken).
C29_FramePointerUnwind ==
  [][ (NextStep /\ FramePointerPC(it.pc)) =>
        IF it.regs.BP = NoReg THEN it'.err # NoErr
        ELSE /\ NewFrame(frames').Regs.CFA = it.regs.BP + 2 * PtrSize
             /\ FramePointerCaller(advanceRegs(it, mem').callFrameRegs, it.regs.BP, mem')
             /\ (it.opts.StacktraceSimple /\ ~it'.atend) =>
                  FramePointerCaller(it'.regs, it.regs.BP, mem')
             /\ ( /\ it.regs.BP + PtrSize \in Mapped
                  /\ mem'[it.regs.BP + PtrSize] # 0
                  /\ it.frame.Call.Fn.Name # "runtime.sigpanic" ) =>
                  NewFrame(frames').Ret = mem'[it.regs.BP + PtrSize]
    ]_vars

\* a trace with StacktraceSimple holds a frame at a pc unwound through the
\* frame pointer, with both words of its frame record readable and a return
\* address different from 0, and the frame of its caller
C29_Witness ==
  /\ it.opts.StacktraceSimple
  /\ \E k \in 1..(Len(frames) - 1) :
       /\ FramePointerPC(frames[k].Current.PC)
       /\ frames[k].Regs.BP # NoReg
       /\ frames[k].Regs.BP \in Mapped
       /\ frames[k].Regs.BP \in DOMAIN mem /\ (frames[k].Regs.BP + PtrSize) \in DOMAIN mem
       /\ frames[k].Regs.CFA = frames[k].Regs.BP + 2 * PtrSize
       /\ frames[k].Ret = mem[frames[k].Regs.BP + PtrSize]
       /\ frames[k].Ret # 0
       /\ frames[k + 1].Regs.SP = frames[k].Regs.CFA
       /\ frames[k + 1].Regs.BP = mem[frames[k].Regs.BP]

\* what the stack switch of Next gives for the frame built at i.pc
SwitchResult(i, m) ==
  arm64SwitchStack(SwitchInput(i, m), advanceRegs(i, m).callFrameRegs, m)

\* Next leaves the frame built at i.pc through lines 284-293: no signal
\* context is read, the stack switch changes neither the iterator nor the
\* caller's registers, the frame has a return address
NormalReturn(i, m) ==
  /\ SwitchInput(i, m).frame.Current.Fn.Name # "runtime.sigtrampgo"
  /\ \/ i.opts.StacktraceSimple
     \/ SwitchResult(i, m) =
          SwRes(SwitchInput(i, m), advanceRegs(i, m).callFrameRegs, FALSE)
  /\ SwitchInput(i, m).frame.Ret > 0

\* the frame context at pc has no rule for the SP register
NoSPRule(pc) == "SP" \notin DOMAIN FrameContextAt(pc).Regs

\* fs[j] is a physical frame and fs[j + 1] belongs to the physical frame
\* reached through its return address in a trace without stack switches
ReturnPair(fs, j) ==
  /\ ~fs[j].Inlined
  /\ fs[j].Current.Fn.Name # "runtime.sigtrampgo"
  /\ fs[j].Err = NoErr /\ fs[j + 1].Err = NoErr
  /\ fs[j + 1].Current.PC = fs[j].Ret

AfterSigpanic(i) == i.frame.Call.Fn.Name = "runtime.sigpanic"

\* a step of the walk in which Next builds a frame from a defined CFA
BuildStep == NextStep /\ CFAOf(it, mem').reg # NoReg

\* the value of the rule of the return address register at i.pc, 0 when the
\* rule gives no register
RetAddrRuleValue(i, m) ==
  IF RegRuleOf(i, m, FrameContextAt(i.pc).RetAddrReg).reg = NoReg THEN 0
  ELSE RegRuleOf(i, m, FrameContextAt(i.pc).RetAddrReg).reg

\* v, or the link register when v is 0 and the register is present
OrLR(v, regs) == IF v = 0 /\ regs.LR # NoReg THEN regs.LR ELSE v

SigpanicCallerWord(i, m) ==
  IF RegRuleOf(i, m, FrameContextAt(i.pc).RetAddrReg).reg = NoReg THEN 0
  ELSE ReadRaw(m, CFAOf(i, m).reg)

C32_HasInlinesAfterInlined ==
  \A k \in 1..Len(frames) :
    frames[k].hasInlines =>
      /\ k > 1
      /\ frames[k - 1].Inlined
      /\ frames[k - 1].Current = frames[k].Current

\* the physical frame delivered before the step at hand is runtime.sigpanic
PrevIsSigpanic(i) == i.frame.Current.Fn.Name = "runtime.sigpanic"

\* C33: whenever the iterator builds a frame, sigret is true if and only if
\* the physical frame delivered immediately before it was runtime.sigpanic,
\* also after a stack switch or a signal-trampoline hop
C33_SigretIffAfterSigpanic ==
  [][ BuildStep => (it.sigret <=> PrevIsSigpanic(it)) ]_vars

\* the defer lists whose records are readable and carry no rangefunc list:
\* intact lists and lists whose link pointers form a cycle
LinkedHeaps ==
  { [head |-> 1, recs |-> r] :
      r \in [DeferAddrs -> {rec \in DeferRecs : rec.readable /\ rec.head = 0}] }

\* the frame lists without inlined frames and without an error frame
PhysicalFrameLists ==
  { l \in FrameLists : \A k \in 1..Len(l) : ~l[k].Inlined /\ l[k].Err = NoErr }

\* readDefers called on the frames of a trace, as stacktrace calls it
InitDefersLinked ==
  /\ image = "user"
  /\ it = goroutineStackIterator(TRUE, Goroutine(1004, FALSE, FALSE), ThreadRegs(0, 0, 0),
                                 MkOpts(TRUE, FALSE, FALSE))
  /\ created = it
  /\ mem = << >>
  /\ depth = MaxDepth
  /\ frames \in PhysicalFrameLists
  /\ result = [frames |-> frames, err |-> NoErr]
  /\ gdefer \in LinkedHeaps
  /\ curdefer = NoDefer
  /\ fi = 0
  /\ rf = RangeFuncLocals
  /\ phase = "rd_start"

\* G.readDefers is sequential code: its loop keeps taking steps until it
\* returns
SpecDefersFair == InitDefersLinked /\ [][DefersNext]_vars /\ WF_vars(DefersNext)

\* the loop of readDefers repeats itself after this many iterations: what an
\* iteration does depends on the frame index and on the record the cursor is
\* on only
ReadDefersPeriod == (MaxDefers + 2) * (MaxDepth + 3)

RECURSIVE ReadDefersReturnsFrom(_, _, _, _, _)
\* the loop of readDefers with the cursor cur on frames[i+1] returns within
\* n + 1 iterations
ReadDefersReturnsFrom(fs, cur, i, recs, n) ==
  \E r \in {readDefersIter(fs, cur, i, recs)} :
     \/ r.returned
     \/ n > 0 /\ ReadDefersReturnsFrom(r.frames, r.curdefer, r.i, recs, n - 1)

\* the loop of readDefers, continued from the state at hand, returns
ReadDefersReturns ==
  ReadDefersReturnsFrom(frames, curdefer, fi, gdefer.recs, ReadDefersPeriod)

InReadDefersLoop == phase \in {"rd_loop", "rd_loop2"}
ReadDefersReturned == phase \in {"rd_done", "rd_done2"}

\* a frame holds more defers than the walk is followed for
AttachCapReached == \E k \in 1..Len(frames) : Len(frames[k].Defers) > MaxAttach

\* C34: readDefers terminates for every frame list and every defer list of
\* the target, a list whose link pointers form a cycle included: a call that
\* entered the loop returns (where the walk is not followed further, the
\* rest of the loop returns)
C34_ReadDefersTerminates ==
  InReadDefersLoop ~> (ReadDefersReturned \/ (AttachCapReached /\ ReadDefersReturns))

\* rangeFuncStackTrace called for a goroutine with one list of defers
InitRangeFuncWalk ==
  /\ InitRangeFunc
  /\ gdefer.recs[1].sp = GStackLo
  /\ gdefer.recs[3].readable

\* the guard of RangeFuncDeliver: the loop of stacktraceFunc is entered once
\* more, it.Next() is about to return true
RangeFuncDeliverEnabled ==
  /\ phase = "rf_walk"
  /\ it.err = NoErr /\ ~it.atend
  /\ Len(rf.delivered) < MaxWalk

\* rangeFuncStackTrace is sequential code: it keeps taking steps until it
\* returns.  The weak fairness of RangeFuncDeliver is spelled out with the
\* guard of the action in place of ENABLED
SpecRangeFuncFair ==
  /\ InitRangeFuncWalk
  /\ [][RangeFuncStackTraceNext]_vars
  /\ WF_vars(RangeFuncCall \/ RangeFuncEndOfWalk \/ RangeFuncCheck
               \/ ReadDefersCall \/ ReadDefersStep)
  /\ ([]<>(~RangeFuncDeliverEnabled) \/ []<><<RangeFuncDeliver>>_vars)

\* what one iteration of the loop of stacktraceFunc gives, n being what
\* it.Next() gave: the iterator, the frames kept, the locals of
\* rangeFuncStackTrace and what the callback returned
WalkStepFrames(f, a, r) ==
  [it |-> [f EXCEPT !.count = 0], frames |-> r.frames,
   l |-> [r.l EXCEPT !.delivered = << >>], ret |-> r.ret]

WalkStepFrame(f, a) ==
  WalkStepFrames(f, a, rangeFuncCallbacks(CbRes(rf, frames, TRUE), a.out, 1))

WalkStep(n) ==
  WalkStepFrame(Frame(n.it), appendInlineCalls(Frame(n.it), Frame(n.it).frame))

\* the walk is in its loop
InWalk == phase = "rf_walk"

\* the walk is not followed further although Next would return true
WalkCapReached ==
  InWalk /\ it.err = NoErr /\ ~it.atend /\ Len(rf.delivered) >= MaxWalk

\* every cell the next step reads was read before, and the step leaves the
\* iterator, the frames kept and the locals of rangeFuncStackTrace as they
\* are: every later step does the same
WalkRepeats ==
  /\ InWalk /\ it.err = NoErr /\ ~it.atend
  /\ Decide(mem, Stage1Addrs(it)) = {mem}
  /\ \E n \in {Next(it, mem, SigFail)} :
       /\ ~n.panic
       /\ \E s \in {WalkStep(n)} :
            /\ s.ret
            /\ s.it = [it EXCEPT !.count = 0]
            /\ s.frames = frames
            /\ s.l = [rf EXCEPT !.delivered = << >>]

\* C35: rangeFuncStackTrace terminates for every target stack, also for a
\* stack whose unwinding never reaches a zero return address or an
\* end-of-stack function: the walk that entered its loop leaves it (where
\* the walk is not followed further, its next step does not repeat the
\* state it starts from)
C35_RangeFuncWalkTerminates ==
  InWalk ~> (~InWalk \/ (WalkCapReached /\ ~WalkRepeats))

\* the frames of fs delivered with Bottom set
BottomFrames(fs) == {k \in 1..Len(fs) : fs[k].Bottom}

\* fs holds at most one frame with Bottom set and after it nothing but the
\* frame that carries the error of the trace
BottomIsLast(fs) ==
  /\ Cardinality(BottomFrames(fs)) <= 1
  /\ \A k \in BottomFrames(fs) :
       \A j \in (k + 1)..Len(fs) : fs[j].Err # NoErr /\ j = Len(fs)

\* Next called at the end of the stack returns false and leaves the
\* iterator alone
NextAtEndIsNoop(i, m) ==
  \A sig \in SigContexts(i) \cup {SigFail} :
    Next(i, m, sig) = [it |-> i, ok |-> FALSE, panic |-> FALSE]

\* stacktrace restarted from the registers of the goroutine
Restarted == it.opts.StacktraceG /\ ~created.opts.StacktraceG

\* C36: end of stack is absorbing: once atend is set it is never cleared,
\* Next returns false and changes nothing on every later call, a trace holds
\* at most one frame with Bottom set and no physical frame is delivered
\* after it, also when stacktrace restarts from the registers of the
\* goroutine after a first frame that was the bottom of the stack
C36_EndOfStackAbsorbing ==
  [][ /\ it.atend => it'.atend
      /\ it.atend => NextAtEndIsNoop(it, mem)
      /\ it.atend =>
            \/ frames' = frames
            \/ phase' = "done" /\ frames' = Append(frames, [ZeroFrame EXCEPT !.Err = it.err])
      /\ BottomIsLast(frames')
      /\ BottomIsLast(result'.frames) ]_vars

\* a finished trace that restarted from the registers of the goroutine
\* although its first frame was the bottom of the stack: it holds that frame
\* and nothing else, the restart having cleared the error of the first pass
C36_Witness ==
  /\ phase = "done"
  /\ Restarted
  /\ it.atend
  /\ Len(frames) = 1
  /\ frames[1].Bottom /\ frames[1].SystemStack
  /\ result = [frames |-> frames, err |-> NoErr]

====
